---- MODULE Spec2Model ----
(***************************************************************************)
(* Real-time session coordination of the YoDA backend                      *)
(* (backend/src/socket.rs): the in-process connection registry             *)
(* (SessionState / SessionInfo / ConnectionInfo), the per-connection       *)
(* message loop handle_socket, the message router handle_client_message,   *)
(* the turn advancement of NextTurn and the read-modify-write of the       *)
(* persisted game_state blob of a session.                                 *)
(*                                                                         *)
(* Every connection is one task.  A task is at "idle" while it waits in    *)
(* receiver.next(); a handler is cut at the awaits at which another task   *)
(* can observe or change shared state (the registry, the sessions table).  *)
(* The two registry locks are tokio RwLocks taken map-first, and every     *)
(* function that takes a connection-set lock holds the map lock, so each   *)
(* registry function is one atomic step.                                   *)
(***************************************************************************)
EXTENDS Integers, Sequences, FiniteSets, TLC

(* ----------------------------- bounds ---------------------------------- *)
\* number of websocket connections (one task and one fresh user id each)
NumConns == 2
\* the model stops advancing turns once the persisted round would pass it
MaxRound == 2

Conns == 1..NumConns

(* ------------------------ persistence (rows) --------------------------- *)
\* rows of the sessions table: id -> campaign_id
SessionIds == {"S1", "S2"}
SessionCampaign == [s \in SessionIds |-> IF s = "S1" THEN "K1" ELSE "K2"]
\* campaigns.dm_id: user 1 is the DM of K1; the DM of K2 is not connected
CampaignDm == [k \in {"K1", "K2"} |-> IF k = "K1" THEN 1 ELSE 0]
\* campaign_players rows: user 2 is a player of both campaigns
CampaignPlayers == {<<"K1", 2>>, <<"K2", 2>>}

\* Option<T>
None == [some |-> FALSE]
Some(value) == [some |-> TRUE, value |-> value]

\* rows of the characters table: id -> campaign_id, player_id. User 2 owns
\* one character in each campaign
CharacterIds == {"H1", "H2"}
CharacterCampaign == [ch \in CharacterIds |-> IF ch = "H1" THEN "K1" ELSE "K2"]
CharacterPlayer == [ch \in CharacterIds |-> 2]
\* characters.hp_current, hp_max (both nullable) when the server starts
CharacterHp ==
    [ch \in CharacterIds |->
        IF ch = "H1" THEN [hp_current |-> Some(10), hp_max |-> Some(10)]
        ELSE [hp_current |-> None, hp_max |-> None]]

\* a DM query that also accepts the campaign's players
is_campaign_dm_or_player(session_id, user_id) ==
    /\ session_id \in SessionIds
    /\ \/ CampaignDm[SessionCampaign[session_id]] = user_id
       \/ <<SessionCampaign[session_id], user_id>> \in CampaignPlayers

\* SELECT EXISTS(... WHERE s.id = $1 AND c.dm_id = $2)
is_campaign_dm(session_id, user_id) ==
    /\ session_id \in SessionIds
    /\ CampaignDm[SessionCampaign[session_id]] = user_id

\* SELECT EXISTS(... WHERE s.id = $1 AND (c.dm_id = $2 OR s.campaign_id IN
\*   (SELECT campaign_id FROM campaign_players WHERE player_id = $2)))
has_session_access(session_id, user_id) ==
    /\ session_id \in SessionIds
    /\ \/ CampaignDm[SessionCampaign[session_id]] = user_id
       \/ <<SessionCampaign[session_id], user_id>> \in CampaignPlayers

(* ----------------------------- identity -------------------------------- *)
\* handle_socket's placeholder identity: every connection is "Anonymous",
\* never a DM, with a fresh user id (here: the connection's number)
PlaceholderUsername == "Anonymous"
PlaceholderIsDm == FALSE

(* --------------------------- game state -------------------------------- *)
NoTurn == "None"
EntryIds == {"A", "B", "C"}
InitiativeEntry(id, initiative) == [id |-> id, initiative |-> initiative]
EntryA == InitiativeEntry("A", 10)
EntryB == InitiativeEntry("B", 20)
EntryC == InitiativeEntry("C", 5)

GameStateFields ==
    {"initiative_order", "current_turn", "round", "combat_active", "conditions"}

\* the state #[derive(Default)] would give: round 0
DerivedDefaultGameState ==
    [initiative_order |-> <<>>, current_turn |-> NoTurn, round |-> 0,
     combat_active |-> FALSE, conditions |-> <<>>]

\* the state both handlers substitute when the stored blob does not parse
DefaultGameState ==
    [initiative_order |-> <<>>, current_turn |-> NoTurn, round |-> 1,
     combat_active |-> FALSE, conditions |-> <<>>]

\* create_session stores json!({}) as the game_state of a new session
EmptyJson == [f \in {} |-> 0]

\* serde_json::from_value::<GameState>: every field of the struct must be
\* present (no serde default); unknown fields are dropped
parses_as_game_state(blob) == GameStateFields \subseteq DOMAIN blob
from_value(blob) ==
    IF parses_as_game_state(blob)
    THEN [f \in GameStateFields |-> blob[f]]
    ELSE DefaultGameState
\* serde_json::to_value(&game_state): an object with exactly the five fields
to_value(game_state) == [f \in GameStateFields |-> game_state[f]]

(* ----------------------------- registry -------------------------------- *)
EmptyMap == [k \in {} |-> 0]
MapPut(m, k, v) == [x \in (DOMAIN m) \cup {k} |-> IF x = k THEN v ELSE m[x]]
MapRemove(m, k) == [x \in (DOMAIN m) \ {k} |-> m[x]]

ConnectionInfo(user_id, username, is_dm) ==
    [user_id |-> user_id, username |-> username, is_dm |-> is_dm]
SessionInfo(session_id, campaign_id) ==
    [session_id |-> session_id, campaign_id |-> campaign_id,
     connections |-> EmptyMap]

\* outcome of join_session's "SELECT * FROM sessions WHERE id = $1"
\* (fetch_optional): the row, or nothing (no row, or the query failed)
NoRow == [found |-> FALSE]
SessionRow(session_id) ==
    [found |-> TRUE, id |-> session_id, campaign_id |-> SessionCampaign[session_id]]
session_results(session_id) ==
    {NoRow} \cup (IF session_id \in SessionIds THEN {SessionRow(session_id)} ELSE {})

\* sessions.entry(session_id).or_insert_with(..) followed by connections.insert
upsert_connection(reg, session_id, campaign_id, conn) ==
    LET info == IF session_id \in DOMAIN reg
                THEN reg[session_id]
                ELSE SessionInfo(session_id, campaign_id)
    IN  MapPut(reg, session_id,
               [info EXCEPT !.connections = MapPut(@, conn.user_id, conn)])

\* sessions.entry(session_id).or_insert_with(..) alone
or_insert(reg, session_id, campaign_id) ==
    IF session_id \in DOMAIN reg THEN reg
    ELSE MapPut(reg, session_id, SessionInfo(session_id, campaign_id))

\* connections.insert(user_id, ..) on the SessionInfo the entry call gave:
\* it shows in the map as long as that SessionInfo is the map's entry
insert_connection(reg, session_id, conn) ==
    IF session_id \in DOMAIN reg
    THEN [reg EXCEPT ![session_id].connections = MapPut(@, conn.user_id, conn)]
    ELSE reg

join_session(reg, session_id, user_id, username, is_dm, session_result) ==
    IF session_result.found
    THEN upsert_connection(reg, session_id, session_result.campaign_id,
                           ConnectionInfo(user_id, username, is_dm))
    ELSE reg

\* a leave that drops the whole entry, whoever else is still joined
remove_connection_drop_entry(reg, session_id, user_id) ==
    MapRemove(reg, session_id)

\* a leave that never collects the emptied entry
remove_connection_keep_entry(reg, session_id, user_id) ==
    [reg EXCEPT ![session_id].connections = MapRemove(@, user_id)]

\* what leave_session does to an entry once user_id is taken out of it
remove_connection(reg, session_id, user_id) ==
    LET connections == MapRemove(reg[session_id].connections, user_id)
    IN  IF DOMAIN connections = {}
        THEN MapRemove(reg, session_id)
        ELSE [reg EXCEPT ![session_id].connections = connections]

leave_session(reg, session_id, user_id) ==
    IF session_id \in DOMAIN reg
    THEN remove_connection(reg, session_id, user_id)
    ELSE reg

PlayerInfo(conn) ==
    [user_id |-> conn.user_id, username |-> conn.username, is_dm |-> conn.is_dm]

\* a Vec<PlayerInfo> in HashMap iteration order: modelled as the set
get_session_players(reg, session_id) ==
    IF session_id \in DOMAIN reg
    THEN {PlayerInfo(reg[session_id].connections[u]) :
             u \in DOMAIN reg[session_id].connections}
    ELSE {}

get_session_campaign_id(reg, session_id) ==
    IF session_id \in DOMAIN reg THEN reg[session_id].campaign_id ELSE "None"

\* the user ids joined to session_id
Members(reg, session_id) ==
    IF session_id \in DOMAIN reg THEN DOMAIN reg[session_id].connections ELSE {}

\* a broadcast that writes to every connection of the process
broadcast_recipients_all(reg, session_id) == Conns

\* broadcast_to_session takes the map read lock and prints the message; it
\* writes to no connection: the connections that receive the message
broadcast_recipients(reg, session_id) == {}

(* ---------------------------- turn engine ------------------------------ *)
Ids(order) == {order[i].id : i \in 1..Len(order)}

\* initiative_order.iter().position(|entry| Some(entry.id) == current_turn)
\*   .unwrap_or(0): the first matching position (0-based), 0 when none matches
current_index(game_state) ==
    LET order == game_state.initiative_order
        hits == {i \in 1..Len(order) : order[i].id = game_state.current_turn}
    IN  IF hits = {} THEN 0
        ELSE (CHOOSE i \in hits : \A j \in hits : i <= j) - 1

next_index(game_state) ==
    (current_index(game_state) + 1) % Len(game_state.initiative_order)

\* round is an i32; the model keeps it far below i32::MAX (MaxRound)
increment_round(round) == round + 1

\* an advance that also drops the conditions in effect
advance_turn_dropping_conditions(game_state) ==
    IF game_state.initiative_order # <<>>
    THEN [game_state EXCEPT
            !.current_turn = game_state.initiative_order[next_index(game_state) + 1].id,
            !.round = IF next_index(game_state) = 0 THEN increment_round(@) ELSE @,
            !.conditions = <<>>]
    ELSE game_state

\* the "Advance to next turn" block of NextTurn
advance_turn(game_state) ==
    IF game_state.initiative_order # <<>>
    THEN [game_state EXCEPT
            !.current_turn = game_state.initiative_order[next_index(game_state) + 1].id,
            !.round = IF next_index(game_state) = 0 THEN increment_round(@) ELSE @]
    ELSE game_state

\* entries by descending initiative score (insertion sort)
RECURSIVE by_initiative(_)
by_initiative(order) ==
    IF order = <<>> THEN <<>>
    ELSE LET rest_sorted == by_initiative(Tail(order))
             ahead == {i \in 1..Len(rest_sorted) :
                         rest_sorted[i].initiative >= Head(order).initiative}
         IN  SubSeq(rest_sorted, 1, Cardinality(ahead)) \o <<Head(order)>>
                \o SubSeq(rest_sorted, Cardinality(ahead) + 1, Len(rest_sorted))

\* an UpdateInitiative that stores the list sorted by initiative score
set_initiative_sorted(game_state, initiative_order) ==
    [game_state EXCEPT !.initiative_order = by_initiative(initiative_order),
                       !.combat_active = TRUE]

\* the "Update initiative order" block of UpdateInitiative
set_initiative(game_state, initiative_order) ==
    [game_state EXCEPT !.initiative_order = initiative_order,
                       !.combat_active = TRUE]

(* ------------------------------ roll_dice ------------------------------ *)
\* a dice expression is a string: here the sequence of its characters
MaxDiceLen == 4
\* rolls are drawn exhaustively for up to this many dice of up to this many
\* sides; beyond it only the all-lowest and all-highest draws are taken
MaxEnumRolls == 3

\* i32
MaxI32 == 2147483647
MinI32 == -MaxI32 - 1

Digits == <<"0", "1", "2", "3", "4", "5", "6", "7", "8", "9">>
IsDigit(ch) == \E i \in 1..Len(Digits) : Digits[i] = ch
DigitValue(ch) == (CHOOSE i \in 1..Len(Digits) : Digits[i] = ch) - 1

\* str::split(sep): the pieces between the separators, empty pieces included
RECURSIVE split(_, _)
split(s, sep) ==
    IF \A i \in 1..Len(s) : s[i] # sep
    THEN <<s>>
    ELSE LET i == CHOOSE i \in 1..Len(s) :
                    s[i] = sep /\ \A j \in 1..(i - 1) : s[j] # sep
         IN  <<SubSeq(s, 1, i - 1)>> \o split(SubSeq(s, i + 1, Len(s)), sep)

ParseOk(value) == [ok |-> TRUE, value |-> value]
ParseErr == [ok |-> FALSE, value |-> 0]

\* the digit loop of i32::from_str: checked multiply by ten, then checked
\* add (positive) or checked subtract (negative) of the digit
RECURSIVE accumulate_i32(_, _, _)
accumulate_i32(digits, acc, negative) ==
    IF digits = <<>> THEN ParseOk(acc)
    ELSE LET d == DigitValue(Head(digits))
         IN  IF negative
             THEN IF acc < -(MaxI32 \div 10) \/ d - 1 > acc * 10 + MaxI32
                  THEN ParseErr
                  ELSE accumulate_i32(Tail(digits), acc * 10 - d, negative)
             ELSE IF acc > (MaxI32 - d) \div 10
                  THEN ParseErr
                  ELSE accumulate_i32(Tail(digits), acc * 10 + d, negative)

\* str::parse::<i32>(): an optional sign, then at least one digit and
\* nothing but digits, and a value that fits an i32
parse_i32(s) ==
    IF s = <<>> THEN ParseErr
    ELSE LET digits == IF Head(s) \in {"+", "-"} THEN Tail(s) ELSE s
         IN  IF digits = <<>> \/ \E i \in 1..Len(digits) : ~IsDigit(digits[i])
             THEN ParseErr
             ELSE accumulate_i32(digits, 0, Head(s) = "-")

\* Result::unwrap_or
unwrap_or(parsed, default) == IF parsed.ok THEN parsed.value ELSE default

\* does a + b leave the i32 range
add_overflows(a, b) ==
    \/ b > 0 /\ a > MaxI32 - b
    \/ b < 0 /\ a < MinI32 - b

\* a + b as a release build computes it: modulo 2^32
wrapping_add(a, b) ==
    IF b > 0 /\ a > MaxI32 - b THEN ((a - MaxI32) - 1) + (b + MinI32)
    ELSE IF b < 0 /\ a < MinI32 - b THEN ((a + MaxI32) + 1) + ((b + MaxI32) + 1)
    ELSE a + b

\* total += x, remembering whether any addition so far overflowed
add_assign(sum, x) ==
    [total |-> wrapping_add(sum.total, x),
     overflowed |-> sum.overflowed \/ add_overflows(sum.total, x)]

\* the loop body's `total += roll` over the rolls drawn
RECURSIVE add_rolls(_, _)
add_rolls(rolls, sum) ==
    IF rolls = <<>> THEN sum
    ELSE add_rolls(Tail(rolls), add_assign(sum, Head(rolls)))

DiceOk(total, rolls) == [kind |-> "Ok", total |-> total, rolls |-> rolls]
DiceErr(message) == [kind |-> "Err", message |-> message]
\* "attempt to add with overflow": the task handling the connection dies
DicePanic == [kind |-> "Panic"]

\* (rand::random::<u32>() % sides as u32 + 1) as i32, `count` times: the
\* sequences of rolls the loop can draw
drawn_rolls(count, sides) ==
    IF count <= MaxEnumRolls /\ sides <= MaxEnumRolls
    THEN [1..count -> 1..sides]
    ELSE {[i \in 1..count |-> 1], [i \in 1..count |-> sides]}

\* what roll_dice returns once the rolls are drawn: an overflowing addition
\* panics where overflow checks are compiled in and wraps where they are not
roll_total(rolls, modifier) ==
    LET sum == add_assign(add_rolls(rolls, [total |-> 0, overflowed |-> FALSE]),
                          modifier)
    IN  IF sum.overflowed
        THEN {DicePanic, DiceOk(sum.total, rolls)}
        ELSE {DiceOk(sum.total, rolls)}

\* a roll_dice whose count and sides need not be positive
roll_dice_unchecked(dice) ==
    LET parts == split(dice, "+")
        modifier == IF Len(parts) > 1 THEN unwrap_or(parse_i32(parts[2]), 0) ELSE 0
        dice_parts == split(parts[1], "d")
    IN  IF Len(dice_parts) # 2
        THEN {DiceErr("Invalid dice format. Use format like '2d6+3'")}
        ELSE LET count == parse_i32(dice_parts[1])
                 sides == parse_i32(dice_parts[2])
             IN  IF ~count.ok THEN {DiceErr("Invalid dice count")}
                 ELSE IF ~sides.ok THEN {DiceErr("Invalid dice sides")}
                 ELSE IF count.value <= 0
                 THEN {DiceOk(modifier, <<>>)}
                 ELSE IF sides.value <= 0
                 THEN {DicePanic}
                 ELSE UNION {roll_total(rolls, modifier) :
                                rolls \in drawn_rolls(count.value, sides.value)}

\* roll_dice(dice): the results it can return
roll_dice(dice) ==
    LET parts == split(dice, "+")
        modifier == IF Len(parts) > 1 THEN unwrap_or(parse_i32(parts[2]), 0) ELSE 0
        dice_parts == split(parts[1], "d")
    IN  IF Len(dice_parts) # 2
        THEN {DiceErr("Invalid dice format. Use format like '2d6+3'")}
        ELSE LET count == parse_i32(dice_parts[1])
                 sides == parse_i32(dice_parts[2])
             IN  IF ~count.ok THEN {DiceErr("Invalid dice count")}
                 ELSE IF ~sides.ok THEN {DiceErr("Invalid dice sides")}
                 ELSE IF count.value <= 0 \/ sides.value <= 0
                 THEN {DiceErr("Dice count and sides must be positive")}
                 ELSE UNION {roll_total(rolls, modifier) :
                                rolls \in drawn_rolls(count.value, sides.value)}

\* the characters dice expressions are built from, and every expression of
\* up to MaxDiceLen of them
DiceAlphabet == {"0", "1", "2", "d", "+", "-", "x"}
ShortDice == UNION {[1..n -> DiceAlphabet] : n \in 0..MaxDiceLen}

\* "2d6+3", "0d6", "d20", "2x6", "2d6+x", "2d6+", "2d6+3+4", "2d6+-1",
\* "1d1+2147483647", "1d1+2147483648", "2d2147483647"
LongDice ==
    {<<"2", "d", "6", "+", "3">>,
     <<"0", "d", "6">>,
     <<"d", "2", "0">>,
     <<"2", "x", "6">>,
     <<"2", "d", "6", "+", "x">>,
     <<"2", "d", "6", "+">>,
     <<"2", "d", "6", "+", "3", "+", "4">>,
     <<"2", "d", "6", "+", "-", "1">>,
     <<"1", "d", "1", "+", "2", "1", "4", "7", "4", "8", "3", "6", "4", "7">>,
     <<"1", "d", "1", "+", "2", "1", "4", "7", "4", "8", "3", "6", "4", "8">>,
     <<"2", "d", "2", "1", "4", "7", "4", "8", "3", "6", "4", "7">>}

DiceInputs == ShortDice \cup LongDice

(* ----------------------------- messages -------------------------------- *)
\* initiative orders a client sends: empty, one entry, three entries that
\* are not in initiative-score order, and one that repeats an entry id
InitiativeInputs ==
    {<<>>, <<EntryA>>, <<EntryA, EntryB, EntryC>>, <<EntryA, EntryB, EntryA>>}

\* dice expressions a client sends: "1d2", "0d6", "d20", "2x6", "2d2147483647"
DiceMessages ==
    {<<"1", "d", "2">>,
     <<"0", "d", "6">>,
     <<"d", "2", "0">>,
     <<"2", "x", "6">>,
     <<"2", "d", "2", "1", "4", "7", "4", "8", "3", "6", "4", "7">>}

\* game states a client sends: one that does not parse as a GameState, and
\* one whose current_turn names no entry and whose round is 0
GameStateInputs ==
    {EmptyJson,
     [initiative_order |-> <<EntryA>>, current_turn |-> "B", round |-> 0,
      combat_active |-> TRUE, conditions |-> <<>>]}

\* character ids a client sends: the rows of the table and an id of no row
CharacterInputs == CharacterIds \cup {"H0"}

\* the model stops writing a character once it was written this many times
MaxUpdates == 2

Error(message) == [type |-> "Error", message |-> message]
NoMessage == [type |-> "None"]
NoSession == "None"
NoOut == [reply |-> NoMessage, broadcast |-> NoSession]
NoLocals == [session_id |-> NoSession]
NoCall == [op |-> "none"]

VARIABLES
    sessions,         \* SessionState.sessions: session id -> SessionInfo
    db_game_state,    \* sessions.game_state column: session id -> JSON blob
    pc,               \* per connection: where its task stands
    msg,              \* per connection: the ClientMessage being handled
    current_session,  \* per connection: handle_socket's current_session
    loc,              \* per connection: the handler's session row / game_state
    out,              \* per connection: the handler's result, not yet sent
    outbox,           \* per connection: messages a broadcast wrote to it
    call,             \* the registry call last made directly (hub harness)
    character_updated_at, \* characters.updated_at: character id -> writes so far
    event_logs,       \* event_logs: the rows inserted so far
    http,             \* the HTTP update_initiative request in progress
    dice_call,        \* roll_dice called directly: its argument and result
    character_hp,     \* characters.hp_current, hp_max: character id -> values
    locks,            \* the RwLocks of the registry: who holds which
    task,             \* per connection: the registry function it is inside
    frames,           \* per connection: frames read from its stream so far
    session_rows      \* sessions.status, started_at, ended_at: session id -> values

\* the state only UpdateHP, the lock-level registry functions and the HTTP
\* session endpoints touch
more == <<character_hp, locks, task, session_rows>>

\* the state the websocket handlers of the first part never touch
rest == <<character_updated_at, event_logs, http, dice_call, more>>

vars == <<sessions, db_game_state, pc, msg, current_session, loc, out, outbox, call,
          character_updated_at, event_logs, http, dice_call, character_hp, locks, task,
          frames, session_rows>>

\* no character written, no event logged, no HTTP request, roll_dice not called
NotRolled == [kind |-> "None"]
NoDiceCall == [dice |-> <<>>, result |-> NotRolled]
NoHttp == [pc |-> "idle"]
\* no registry function is running: every lock is free
NoLocks ==
    [map_readers |-> {}, map_writer |-> 0, map_queue |-> <<>>,
     connections_readers |-> [s \in SessionIds |-> {}],
     connections_writer |-> [s \in SessionIds |-> 0]]
NoTask == [op |-> "none"]
\* create_session inserts status 'planned'; started_at and ended_at are NULL
PlannedSession == [status |-> "planned", started_at |-> None, ended_at |-> None]

InitServer ==
    /\ sessions = EmptyMap
    /\ db_game_state = [s \in SessionIds |-> EmptyJson]
    /\ pc = [c \in Conns |-> "idle"]
    /\ msg = [c \in Conns |-> NoMessage]
    /\ current_session = [c \in Conns |-> NoSession]
    /\ loc = [c \in Conns |-> NoLocals]
    /\ out = [c \in Conns |-> NoOut]
    /\ outbox = [c \in Conns |-> {}]
    /\ call = NoCall
    /\ character_updated_at = [ch \in CharacterIds |-> 0]
    /\ event_logs = {}
    /\ character_hp = CharacterHp
    /\ locks = NoLocks
    /\ task = [c \in Conns |-> NoTask]
    /\ frames = [c \in Conns |-> 0]
    /\ session_rows = [s \in SessionIds |-> PlannedSession]
    /\ http = NoHttp

Init ==
    /\ InitServer
    /\ dice_call = NoDiceCall

\* a loop that also passes an Error to the sender's session
Return_errors_to_session(c, reply, broadcast) ==
    /\ out' = [out EXCEPT ![c] =
                 [reply |-> reply,
                  broadcast |-> IF reply.type = "Error" THEN current_session[c]
                                ELSE broadcast]]
    /\ pc' = [pc EXCEPT ![c] = "send"]

\* the handler of connection c returns `reply` after broadcasting (or not)
Return(c, reply, broadcast) ==
    /\ out' = [out EXCEPT ![c] = [reply |-> reply, broadcast |-> broadcast]]
    /\ pc' = [pc EXCEPT ![c] = "send"]

\* broadcast_to_session(session_state, session_id, &message)
broadcast_to_session(session_id, message) ==
    outbox' = [c \in Conns |->
                 IF c \in broadcast_recipients(sessions, session_id)
                 THEN outbox[c] \cup {[session_id |-> session_id, message |-> message]}
                 ELSE outbox[c]]

(* ------------------------- handle_client_message ----------------------- *)
\* JoinSession: the access query, then join_session and current_session
JoinSession(c, session_id) ==
    /\ pc[c] = "idle"
    /\ msg' = [msg EXCEPT ![c] = [type |-> "JoinSession", session_id |-> session_id]]
    /\ \E db_ok \in BOOLEAN :
        \/ /\ ~db_ok
           /\ Return(c, Error("Database error"), NoSession)
           /\ UNCHANGED <<sessions, current_session>>
        \/ /\ db_ok /\ ~has_session_access(session_id, c)
           /\ Return(c, Error("Access denied to this session"), NoSession)
           /\ UNCHANGED <<sessions, current_session>>
        \/ /\ db_ok /\ has_session_access(session_id, c)
           /\ \E session_result \in session_results(session_id) :
                sessions' = join_session(sessions, session_id, c, PlaceholderUsername,
                                         PlaceholderIsDm, session_result)
           /\ current_session' = [current_session EXCEPT ![c] = session_id]
           /\ pc' = [pc EXCEPT ![c] = "join_players"]
           /\ UNCHANGED out
    /\ UNCHANGED <<db_game_state, loc, outbox, call, rest>>

\* JoinSession, after join_session: get_session_players and the reply
JoinSessionPlayers(c) ==
    /\ pc[c] = "join_players"
    /\ Return(c, [type |-> "SessionJoined", session_id |-> msg[c].session_id,
                  players |-> get_session_players(sessions, msg[c].session_id)],
              NoSession)
    /\ UNCHANGED <<sessions, db_game_state, msg, current_session, loc, outbox, call, rest>>

LeaveSession(c, session_id) ==
    /\ pc[c] = "idle"
    /\ msg' = [msg EXCEPT ![c] = [type |-> "LeaveSession", session_id |-> session_id]]
    /\ sessions' = leave_session(sessions, session_id, c)
    /\ current_session' = [current_session EXCEPT ![c] = NoSession]
    /\ Return(c, [type |-> "PlayerLeft", player_id |-> c], NoSession)
    /\ UNCHANGED <<db_game_state, loc, outbox, call, rest>>

\* ChatMessage: no query; broadcast when current_session is set (the
\* timestamp Utc::now() is left out of the message)
ChatMessage(c) ==
    /\ pc[c] = "idle"
    /\ msg' = [msg EXCEPT ![c] = [type |-> "ChatMessage", message |-> "hi"]]
    /\ LET chat_msg == [type |-> "ChatMessage", player_id |-> c, message |-> "hi"]
       IN  IF current_session[c] # NoSession
           THEN /\ broadcast_to_session(current_session[c], chat_msg)
                /\ Return(c, chat_msg, current_session[c])
           ELSE /\ UNCHANGED outbox
                /\ Return(c, chat_msg, NoSession)
    /\ UNCHANGED <<sessions, db_game_state, current_session, loc, call, rest>>

\* the DM query and the fetch of the session row, shared by UpdateInitiative
\* and NextTurn: TRUE when the handler got the row, else it has returned an
\* Error.  Both queries read rows only; the game_state read is the last one.
FetchForDm(c, denied) ==
    \E db_ok \in {"dm query failed", "session query failed", "ok"} :
        \/ /\ db_ok = "dm query failed"
           /\ Return(c, Error("Database error"), NoSession)
           /\ UNCHANGED loc
        \/ /\ db_ok # "dm query failed" /\ ~is_campaign_dm(msg'[c].session_id, c)
           /\ Return(c, Error(denied), NoSession)
           /\ UNCHANGED loc
        \/ /\ db_ok = "session query failed" /\ is_campaign_dm(msg'[c].session_id, c)
           /\ Return(c, Error("Failed to fetch session"), NoSession)
           /\ UNCHANGED loc
        \/ /\ db_ok = "ok" /\ is_campaign_dm(msg'[c].session_id, c)
           /\ loc' = [loc EXCEPT ![c] =
                        [session_id |-> msg'[c].session_id,
                         session_game_state |-> db_game_state[msg'[c].session_id]]]
           /\ pc' = [pc EXCEPT ![c] = "write"]
           /\ UNCHANGED out

\* UpdateInitiative up to the fetch of the session row
UpdateInitiative(c, session_id, initiative_order) ==
    /\ pc[c] = "idle"
    /\ msg' = [msg EXCEPT ![c] = [type |-> "UpdateInitiative", session_id |-> session_id,
                                   initiative_order |-> initiative_order]]
    /\ FetchForDm(c, "Only the DM can update initiative")
    /\ UNCHANGED <<sessions, db_game_state, current_session, outbox, call, rest>>

\* UpdateInitiative from the parse of the fetched blob: the UPDATE, the
\* broadcast and the reply
UpdateInitiativeWrite(c) ==
    /\ pc[c] = "write" /\ msg[c].type = "UpdateInitiative"
    /\ LET session_id == msg[c].session_id
           game_state == set_initiative(from_value(loc[c].session_game_state),
                                        msg[c].initiative_order)
           updated == [type |-> "InitiativeUpdated", session_id |-> session_id,
                       initiative_order |-> msg[c].initiative_order,
                       current_turn |-> game_state.current_turn]
       IN  \E db_ok \in BOOLEAN :
             \/ /\ ~db_ok
                /\ Return(c, Error("Failed to update game state"), NoSession)
                /\ UNCHANGED <<db_game_state, outbox>>
             \/ /\ db_ok
                /\ db_game_state' = [db_game_state EXCEPT ![session_id] = to_value(game_state)]
                /\ broadcast_to_session(session_id, updated)
                /\ Return(c, updated, session_id)
    /\ loc' = [loc EXCEPT ![c] = NoLocals]
    /\ UNCHANGED <<sessions, msg, current_session, call, rest>>

\* NextTurn up to the fetch of the session row
NextTurn(c, session_id) ==
    /\ pc[c] = "idle"
    /\ msg' = [msg EXCEPT ![c] = [type |-> "NextTurn", session_id |-> session_id]]
    /\ FetchForDm(c, "Only the DM can advance turns")
    /\ UNCHANGED <<sessions, db_game_state, current_session, outbox, call, rest>>

\* NextTurn from the parse of the fetched blob: the advance, the UPDATE,
\* and the broadcast and reply that depend on current_turn
NextTurnWrite(c) ==
    /\ pc[c] = "write" /\ msg[c].type = "NextTurn"
    /\ LET session_id == msg[c].session_id
           game_state == advance_turn(from_value(loc[c].session_game_state))
           changed == [type |-> "TurnChanged", session_id |-> session_id,
                       current_turn |-> game_state.current_turn,
                       round |-> game_state.round]
       IN  /\ game_state.round <= MaxRound
           /\ \E db_ok \in BOOLEAN :
                \/ /\ ~db_ok
                   /\ Return(c, Error("Failed to update game state"), NoSession)
                   /\ UNCHANGED <<db_game_state, outbox>>
                \/ /\ db_ok
                   /\ db_game_state' = [db_game_state EXCEPT ![session_id] = to_value(game_state)]
                   /\ IF game_state.current_turn # NoTurn
                      THEN /\ broadcast_to_session(session_id, changed)
                           /\ Return(c, changed, session_id)
                      ELSE /\ UNCHANGED outbox
                           /\ Return(c, Error("No initiative order set"), NoSession)
    /\ loc' = [loc EXCEPT ![c] = NoLocals]
    /\ UNCHANGED <<sessions, msg, current_session, call, rest>>

(* ----------------------------- handle_socket --------------------------- *)
\* a text frame that is no ClientMessage
InvalidFrame(c) ==
    /\ pc[c] = "idle"
    /\ msg' = [msg EXCEPT ![c] = [type |-> "Invalid"]]
    /\ Return(c, Error("Invalid message format"), NoSession)
    /\ UNCHANGED <<sessions, db_game_state, current_session, loc, outbox, call, rest>>

\* sender.send(..) of the handler's result: back to the loop, or break when
\* the write fails
SendReply(c) ==
    /\ pc[c] = "send"
    /\ \E sent \in BOOLEAN :
         pc' = [pc EXCEPT ![c] = IF sent THEN "idle" ELSE "closed"]
    /\ out' = [out EXCEPT ![c] = NoOut]
    /\ msg' = [msg EXCEPT ![c] = NoMessage]
    /\ UNCHANGED <<sessions, db_game_state, current_session, loc, outbox, call, rest>>

\* Ok(Message::Close(_)): leave_session when current_session is set, break
Close(c) ==
    /\ pc[c] = "idle"
    /\ sessions' = IF current_session[c] # NoSession
                   THEN leave_session(sessions, current_session[c], c)
                   ELSE sessions
    /\ pc' = [pc EXCEPT ![c] = "closed"]
    /\ UNCHANGED <<db_game_state, msg, current_session, loc, out, outbox, call, rest>>

\* receiver.next() yields None: the loop ends without a Close frame
StreamEnd(c) ==
    /\ pc[c] = "idle"
    /\ pc' = [pc EXCEPT ![c] = "closed"]
    /\ UNCHANGED <<sessions, db_game_state, msg, current_session, loc, out, outbox, call, rest>>

\* DiceRoll: roll_dice, then the broadcast to the sender's session if any.
\* A panic inside roll_dice ends the connection's task: no reply, no leave
DiceRoll(c, dice) ==
    /\ pc[c] = "idle"
    /\ msg' = [msg EXCEPT ![c] = [type |-> "DiceRoll", dice |-> dice]]
    /\ \E result \in roll_dice(dice) :
         IF result.kind = "Err"
         THEN /\ Return(c, Error(result.message), NoSession)
              /\ UNCHANGED outbox
         ELSE IF result.kind = "Panic"
         THEN /\ pc' = [pc EXCEPT ![c] = "closed"]
              /\ UNCHANGED <<out, outbox>>
         ELSE LET dice_rolled == [type |-> "DiceRolled", player_id |-> c,
                                  dice |-> dice, result |-> result.total,
                                  rolls |-> result.rolls]
              IN  IF current_session[c] # NoSession
                  THEN /\ broadcast_to_session(current_session[c], dice_rolled)
                       /\ Return(c, dice_rolled, current_session[c])
                  ELSE /\ UNCHANGED outbox
                       /\ Return(c, dice_rolled, NoSession)
    /\ UNCHANGED <<sessions, db_game_state, current_session, loc, call, rest>>

\* UpdateGameState: the connection's own DM flag decides, then the raw blob
\* is written to the row of the sender's session
UpdateGameState(c, game_state) ==
    /\ pc[c] = "idle"
    /\ msg' = [msg EXCEPT ![c] = [type |-> "UpdateGameState", game_state |-> game_state]]
    /\ IF ~PlaceholderIsDm
       THEN /\ Return(c, Error("Only the DM can update game state"), NoSession)
            /\ UNCHANGED <<db_game_state, outbox>>
       ELSE IF current_session[c] = NoSession
       THEN /\ Return(c, Error("Not in a session"), NoSession)
            /\ UNCHANGED <<db_game_state, outbox>>
       ELSE \E db_ok \in BOOLEAN :
              IF db_ok
              THEN /\ db_game_state' = [db_game_state EXCEPT
                                           ![current_session[c]] = game_state]
                   /\ broadcast_to_session(current_session[c],
                          [type |-> "GameStateUpdated", game_state |-> game_state])
                   /\ Return(c, [type |-> "GameStateUpdated", game_state |-> game_state],
                             current_session[c])
              ELSE /\ Return(c, Error("Failed to update game state"), NoSession)
                   /\ UNCHANGED <<db_game_state, outbox>>
    /\ UNCHANGED <<sessions, current_session, loc, call, rest>>

\* SELECT EXISTS(... FROM characters c INNER JOIN campaigns cam ...
\*   WHERE c.id = $1 AND (c.player_id = $2 OR cam.dm_id = $2))
has_character_access(character_id, user_id) ==
    /\ character_id \in CharacterIds
    /\ \/ CharacterPlayer[character_id] = user_id
       \/ CampaignDm[CharacterCampaign[character_id]] = user_id

\* the "Additional validation" block of UpdateCharacter: the campaign of
\* the character is compared only when the sender has a current session
\* and the registry has an entry for it
campaign_mismatch(reg, session, character_id) ==
    /\ session # NoSession
    /\ get_session_campaign_id(reg, session) # "None"
    /\ CharacterCampaign[character_id] # get_session_campaign_id(reg, session)

\* UpdateCharacter: access query, campaign check, UPDATE of updated_at (the
\* `updates` of the message are not read), broadcast
UpdateCharacter(c, character_id) ==
    /\ pc[c] = "idle"
    /\ character_id \in CharacterIds => character_updated_at[character_id] < MaxUpdates
    /\ msg' = [msg EXCEPT ![c] = [type |-> "UpdateCharacter",
                                  character_id |-> character_id]]
    /\ \E db_ok \in {"access query failed", "campaign query failed",
                      "update failed", "ok"} :
         LET checked == /\ current_session[c] # NoSession
                        /\ get_session_campaign_id(sessions, current_session[c]) # "None"
             character_updated == [type |-> "CharacterUpdated",
                                   character |-> character_id]
         IN  IF db_ok = "access query failed"
             THEN /\ Return(c, Error("Database error"), NoSession)
                  /\ UNCHANGED <<character_updated_at, outbox>>
             ELSE IF ~has_character_access(character_id, c)
             THEN /\ Return(c, Error("Access denied to this character"), NoSession)
                  /\ UNCHANGED <<character_updated_at, outbox>>
             ELSE IF checked /\ db_ok = "campaign query failed"
             THEN /\ Return(c, Error("Database error"), NoSession)
                  /\ UNCHANGED <<character_updated_at, outbox>>
             ELSE IF campaign_mismatch(sessions, current_session[c], character_id)
             THEN /\ Return(c, Error("Character does not belong to current session's campaign"),
                            NoSession)
                  /\ UNCHANGED <<character_updated_at, outbox>>
             ELSE IF db_ok = "update failed"
             THEN /\ Return(c, Error("Failed to update character"), NoSession)
                  /\ UNCHANGED <<character_updated_at, outbox>>
             ELSE /\ character_updated_at' =
                        [character_updated_at EXCEPT ![character_id] = @ + 1]
                  /\ IF current_session[c] # NoSession
                     THEN /\ broadcast_to_session(current_session[c], character_updated)
                          /\ Return(c, character_updated, current_session[c])
                     ELSE /\ UNCHANGED outbox
                          /\ Return(c, character_updated, NoSession)
    /\ UNCHANGED <<sessions, db_game_state, current_session, loc, call,
                   event_logs, http, dice_call, more>>

\* hp values a client sends: hp_current 5, hp_max absent or 12
HpInputs == {[hp_current |-> 5, hp_max |-> None], [hp_current |-> 5, hp_max |-> Some(12)]}

\* Option::unwrap_or
option_unwrap_or(option, default) == IF option.some THEN option.value ELSE default

\* UPDATE characters SET hp_current = $1, hp_max = COALESCE($2, hp_max)
update_hp(row, hp_current, hp_max) ==
    [hp_current |-> Some(hp_current),
     hp_max |-> IF hp_max.some THEN hp_max ELSE row.hp_max]

\* UpdateHP: access query, UPDATE of hp_current, hp_max and updated_at,
\* broadcast of the values of the returned row
UpdateHP(c, character_id, hp) ==
    /\ pc[c] = "idle"
    /\ character_id \in CharacterIds => character_updated_at[character_id] < MaxUpdates
    /\ msg' = [msg EXCEPT ![c] = [type |-> "UpdateHP", character_id |-> character_id,
                                  hp_current |-> hp.hp_current, hp_max |-> hp.hp_max]]
    /\ \E db_ok \in {"access query failed", "update failed", "ok"} :
         IF db_ok = "access query failed"
         THEN /\ Return(c, Error("Database error"), NoSession)
              /\ UNCHANGED <<character_updated_at, character_hp, outbox>>
         ELSE IF ~has_character_access(character_id, c)
         THEN /\ Return(c, Error("Access denied to this character"), NoSession)
              /\ UNCHANGED <<character_updated_at, character_hp, outbox>>
         ELSE IF db_ok = "update failed"
         THEN /\ Return(c, Error("Failed to update character HP"), NoSession)
              /\ UNCHANGED <<character_updated_at, character_hp, outbox>>
         ELSE LET res == update_hp(character_hp[character_id], hp.hp_current, hp.hp_max)
                  hp_updated == [type |-> "HPUpdated", character_id |-> character_id,
                                 hp_current |-> option_unwrap_or(res.hp_current, 0),
                                 hp_max |-> option_unwrap_or(res.hp_max, 0)]
              IN  /\ character_hp' = [character_hp EXCEPT ![character_id] = res]
                  /\ character_updated_at' =
                        [character_updated_at EXCEPT ![character_id] = @ + 1]
                  /\ IF current_session[c] # NoSession
                     THEN /\ broadcast_to_session(current_session[c], hp_updated)
                          /\ Return(c, hp_updated, current_session[c])
                     ELSE /\ UNCHANGED outbox
                          /\ Return(c, hp_updated, NoSession)
    /\ UNCHANGED <<sessions, db_game_state, current_session, loc, call,
                   event_logs, http, dice_call, locks, task, session_rows>>

\* a CreateEventLog that ignores the result of its INSERT, as AIRequest does
CreateEventLog_ignoring_insert(c, session_id) ==
    /\ pc[c] = "idle"
    /\ msg' = [msg EXCEPT ![c] = [type |-> "CreateEventLog", session_id |-> session_id,
                                  event_type |-> "note"]]
    /\ \E db_ok \in {"access query failed", "insert failed", "ok"} :
         IF db_ok = "access query failed"
         THEN /\ Return(c, Error("Database error"), NoSession)
              /\ UNCHANGED <<event_logs, outbox>>
         ELSE IF ~has_session_access(session_id, c)
         THEN /\ Return(c, Error("Access denied to this session"), NoSession)
              /\ UNCHANGED <<event_logs, outbox>>
         ELSE LET event_msg == [type |-> "EventLogCreated", event_type |-> "note",
                                created_by |-> c]
              IN  /\ event_logs' =
                        IF db_ok = "ok"
                        THEN event_logs \cup
                                {[session_id |-> session_id, event_type |-> "note",
                                  created_by |-> c]}
                        ELSE event_logs
                  /\ broadcast_to_session(session_id, event_msg)
                  /\ Return(c, event_msg, session_id)
    /\ UNCHANGED <<sessions, db_game_state, current_session, loc, call,
                   character_updated_at, http, dice_call, more>>

\* CreateEventLog: access query on the session of the message, INSERT,
\* broadcast to that session
CreateEventLog(c, session_id) ==
    /\ pc[c] = "idle"
    /\ msg' = [msg EXCEPT ![c] = [type |-> "CreateEventLog", session_id |-> session_id,
                                  event_type |-> "note"]]
    /\ \E db_ok \in {"access query failed", "insert failed", "ok"} :
         IF db_ok = "access query failed"
         THEN /\ Return(c, Error("Database error"), NoSession)
              /\ UNCHANGED <<event_logs, outbox>>
         ELSE IF ~has_session_access(session_id, c)
         THEN /\ Return(c, Error("Access denied to this session"), NoSession)
              /\ UNCHANGED <<event_logs, outbox>>
         ELSE IF db_ok = "insert failed"
         THEN /\ Return(c, Error("Failed to create event log"), NoSession)
              /\ UNCHANGED <<event_logs, outbox>>
         ELSE LET event_msg == [type |-> "EventLogCreated", event_type |-> "note",
                                created_by |-> c]
              IN  /\ event_logs' = event_logs \cup
                                      {[session_id |-> session_id, event_type |-> "note",
                                        created_by |-> c]}
                  /\ broadcast_to_session(session_id, event_msg)
                  /\ Return(c, event_msg, session_id)
    /\ UNCHANGED <<sessions, db_game_state, current_session, loc, call,
                   character_updated_at, http, dice_call, more>>

\* PlayerAction: a placeholder that answers with an Error message
PlayerAction(c) ==
    /\ pc[c] = "idle"
    /\ msg' = [msg EXCEPT ![c] = [type |-> "PlayerAction"]]
    /\ Return(c, Error("Player actions not yet implemented"), NoSession)
    /\ UNCHANGED <<sessions, db_game_state, current_session, loc, outbox, call, rest>>

\* AIRequest: the canned response, an event_logs row when the sender has a
\* current session (a failed INSERT is ignored), broadcast
AIRequest(c) ==
    /\ pc[c] = "idle"
    /\ msg' = [msg EXCEPT ![c] = [type |-> "AIRequest"]]
    /\ LET ai_response == [type |-> "AIResponse", tokens_used |-> 150,
                           model |-> "gpt-4"]
       IN  IF current_session[c] # NoSession
           THEN /\ \E db_ok \in BOOLEAN :
                     event_logs' =
                        IF db_ok
                        THEN event_logs \cup {[session_id |-> current_session[c],
                                               event_type |-> "ai_request",
                                               created_by |-> c]}
                        ELSE event_logs
                /\ broadcast_to_session(current_session[c], ai_response)
                /\ Return(c, ai_response, current_session[c])
           ELSE /\ UNCHANGED <<event_logs, outbox>>
                /\ Return(c, ai_response, NoSession)
    /\ UNCHANGED <<sessions, db_game_state, current_session, loc, call,
                   character_updated_at, http, dice_call, more>>

Next ==
    \E c \in Conns :
        \/ \E session_id \in SessionIds : JoinSession(c, session_id) /\ UNCHANGED frames
        \/ JoinSessionPlayers(c) /\ UNCHANGED frames
        \/ \E session_id \in SessionIds : LeaveSession(c, session_id) /\ UNCHANGED frames
        \/ ChatMessage(c) /\ UNCHANGED frames
        \/ \E session_id \in SessionIds, initiative_order \in InitiativeInputs :
              UpdateInitiative(c, session_id, initiative_order) /\ UNCHANGED frames
        \/ UpdateInitiativeWrite(c) /\ UNCHANGED frames
        \/ \E session_id \in SessionIds : NextTurn(c, session_id) /\ UNCHANGED frames
        \/ NextTurnWrite(c) /\ UNCHANGED frames
        \/ InvalidFrame(c) /\ UNCHANGED frames
        \/ SendReply(c) /\ UNCHANGED frames
        \/ Close(c) /\ UNCHANGED frames
        \/ StreamEnd(c) /\ UNCHANGED frames

Spec == Init /\ [][Next]_vars

(* ----------------------- HTTP update_initiative ------------------------ *)
\* authenticated users that call the endpoint: the users of the connections
HttpUsers == Conns

UpdateInitiativeRequest(session_id, initiative_order, current_turn, round, combat_active) ==
    [session_id |-> session_id, initiative_order |-> initiative_order,
     current_turn |-> current_turn, round |-> round,
     combat_active |-> combat_active]

\* request bodies: a full order with its first entry on turn and round and
\* combat flag left alone; an empty order with a current_turn, round 1 and
\* combat switched off
HttpPayloads ==
    {UpdateInitiativeRequest(session_id, <<EntryA, EntryB, EntryC>>, "A", None, None) :
        session_id \in SessionIds}
    \cup
    {UpdateInitiativeRequest(session_id, <<>>, "B", Some(1), Some(FALSE)) :
        session_id \in SessionIds}

\* an update_initiative that starts the rounds again when the request
\* carries no round
apply_request_resetting_round(game_state, payload) ==
    [game_state EXCEPT
        !.initiative_order = payload.initiative_order,
        !.current_turn = payload.current_turn,
        !.round = IF payload.round.some THEN payload.round.value ELSE 1,
        !.combat_active = IF payload.combat_active.some
                          THEN payload.combat_active.value ELSE @]

\* the "Update game state" block of update_initiative
apply_request(game_state, payload) ==
    [game_state EXCEPT
        !.initiative_order = payload.initiative_order,
        !.current_turn = payload.current_turn,
        !.round = IF payload.round.some THEN payload.round.value ELSE @,
        !.combat_active = IF payload.combat_active.some
                          THEN payload.combat_active.value ELSE @]

Response(status, body) == [status |-> status, body |-> body]

HttpReturn(response) == http' = [pc |-> "done", response |-> response]

\* update_initiative up to the fetch of the session row: a failed DM query
\* counts as "not the DM"
HttpUpdateInitiative(user, payload) ==
    /\ http.pc = "idle"
    /\ \E db_ok \in {"dm query failed", "session query failed", "ok"} :
         IF db_ok = "dm query failed" \/ ~is_campaign_dm(payload.session_id, user)
         THEN HttpReturn(Response(403, "Only the DM can update initiative"))
         ELSE IF db_ok = "session query failed"
         THEN HttpReturn(Response(404, "Session not found"))
         ELSE http' = [pc |-> "write", user |-> user, payload |-> payload,
                       session_game_state |-> db_game_state[payload.session_id]]
    /\ UNCHANGED <<sessions, db_game_state, pc, msg, current_session, loc, out,
                   outbox, call, character_updated_at, event_logs, dice_call, more>>

\* an update_initiative whose UPDATE is refused when the stored blob is no
\* longer the one that was fetched
HttpUpdateInitiativeWrite_versioned ==
    /\ http.pc = "write"
    /\ LET game_state == apply_request(from_value(http.session_game_state),
                                       http.payload)
       IN  IF db_game_state[http.payload.session_id] = http.session_game_state
           THEN /\ db_game_state' = [db_game_state EXCEPT
                                        ![http.payload.session_id] = to_value(game_state)]
                /\ HttpReturn(Response(200, "Initiative updated"))
           ELSE /\ HttpReturn(Response(500, "Failed to update initiative"))
                /\ UNCHANGED db_game_state
    /\ UNCHANGED <<sessions, pc, msg, current_session, loc, out, outbox, call,
                   character_updated_at, event_logs, dice_call, more>>

\* update_initiative from the parse of the fetched blob: the UPDATE and the
\* response
HttpUpdateInitiativeWrite ==
    /\ http.pc = "write"
    /\ LET game_state == apply_request(from_value(http.session_game_state),
                                       http.payload)
       IN  \E db_ok \in BOOLEAN :
             IF db_ok
             THEN /\ db_game_state' = [db_game_state EXCEPT
                                          ![http.payload.session_id] = to_value(game_state)]
                  /\ HttpReturn(Response(200, "Initiative updated"))
             ELSE /\ HttpReturn(Response(500, "Failed to update initiative"))
                  /\ UNCHANGED db_game_state
    /\ UNCHANGED <<sessions, pc, msg, current_session, loc, out, outbox, call,
                   character_updated_at, event_logs, dice_call, more>>

\* the response leaves the server
HttpRespond ==
    /\ http.pc = "done"
    /\ http' = NoHttp
    /\ UNCHANGED <<sessions, db_game_state, pc, msg, current_session, loc, out,
                   outbox, call, character_updated_at, event_logs, dice_call, more>>

\* everything that writes a session's game state: the websocket handlers
\* UpdateInitiative, NextTurn and UpdateGameState of every connection and
\* the HTTP endpoint, interleaved at their database accesses
StateNext ==
    \/ \E c \in Conns :
          \/ \E session_id \in SessionIds, initiative_order \in InitiativeInputs :
                UpdateInitiative(c, session_id, initiative_order) /\ UNCHANGED frames
          \/ UpdateInitiativeWrite(c) /\ UNCHANGED frames
          \/ \E session_id \in SessionIds : NextTurn(c, session_id) /\ UNCHANGED frames
          \/ NextTurnWrite(c) /\ UNCHANGED frames
          \/ \E game_state \in GameStateInputs :
                UpdateGameState(c, game_state) /\ UNCHANGED frames
          \/ SendReply(c) /\ UNCHANGED frames
    \/ \E user \in HttpUsers, payload \in HttpPayloads :
          HttpUpdateInitiative(user, payload) /\ UNCHANGED frames
    \/ HttpUpdateInitiativeWrite /\ UNCHANGED frames
    \/ HttpRespond /\ UNCHANGED frames

SpecState == Init /\ [][StateNext]_vars

\* the handlers that read and write no game state: joining and leaving,
\* chat, dice, AI requests, game-state and character updates
RouterNext ==
    \E c \in Conns :
        \/ \E session_id \in SessionIds : JoinSession(c, session_id) /\ UNCHANGED frames
        \/ JoinSessionPlayers(c) /\ UNCHANGED frames
        \/ \E session_id \in SessionIds : LeaveSession(c, session_id) /\ UNCHANGED frames
        \/ ChatMessage(c) /\ UNCHANGED frames
        \/ \E dice \in DiceMessages : DiceRoll(c, dice) /\ UNCHANGED frames
        \/ \E game_state \in GameStateInputs : UpdateGameState(c, game_state) /\ UNCHANGED frames
        \/ \E character_id \in CharacterInputs : UpdateCharacter(c, character_id) /\ UNCHANGED frames
        \/ AIRequest(c) /\ UNCHANGED frames
        \/ SendReply(c) /\ UNCHANGED frames
        \/ Close(c) /\ UNCHANGED frames
        \/ StreamEnd(c) /\ UNCHANGED frames

SpecRouter == Init /\ [][RouterNext]_vars

\* the model stops reading a connection's stream after this many frames
MaxFrames == 2

\* receiver.next() yields a frame
ReadFrame(c) ==
    /\ frames[c] < MaxFrames
    /\ frames' = [frames EXCEPT ![c] = @ + 1]

\* every message of the protocol, by every connection
MessagesNext ==
    \E c \in Conns :
        \/ \E session_id \in SessionIds : ReadFrame(c) /\ JoinSession(c, session_id)
        \/ JoinSessionPlayers(c) /\ UNCHANGED frames
        \/ \E session_id \in SessionIds : ReadFrame(c) /\ LeaveSession(c, session_id)
        \/ ReadFrame(c) /\ ChatMessage(c)
        \/ \E dice \in DiceMessages : ReadFrame(c) /\ DiceRoll(c, dice)
        \/ \E game_state \in GameStateInputs :
              ReadFrame(c) /\ UpdateGameState(c, game_state)
        \/ ReadFrame(c) /\ PlayerAction(c)
        \/ \E character_id \in CharacterInputs :
              ReadFrame(c) /\ UpdateCharacter(c, character_id)
        \/ \E session_id \in SessionIds, initiative_order \in InitiativeInputs :
              ReadFrame(c) /\ UpdateInitiative(c, session_id, initiative_order)
        \/ UpdateInitiativeWrite(c) /\ UNCHANGED frames
        \/ \E session_id \in SessionIds : ReadFrame(c) /\ NextTurn(c, session_id)
        \/ NextTurnWrite(c) /\ UNCHANGED frames
        \/ \E character_id \in CharacterInputs, hp \in HpInputs :
              ReadFrame(c) /\ UpdateHP(c, character_id, hp)
        \/ \E session_id \in SessionIds : ReadFrame(c) /\ CreateEventLog(c, session_id)
        \/ ReadFrame(c) /\ AIRequest(c)
        \/ ReadFrame(c) /\ InvalidFrame(c)
        \/ SendReply(c) /\ UNCHANGED frames
        \/ ReadFrame(c) /\ Close(c)
        \/ StreamEnd(c) /\ UNCHANGED frames

SpecMessages == Init /\ [][MessagesNext]_vars

(* ----------------------- HTTP session endpoints ------------------------ *)
\* a game state in combat that carries a condition
Poisoned == [target_id |-> "A", condition_type |-> "poisoned"]
CombatJson ==
    [initiative_order |-> <<EntryA, EntryB>>, current_turn |-> "A", round |-> 1,
     combat_active |-> TRUE, conditions |-> <<Poisoned>>]

UpdateSessionRequest(status, game_state) == [status |-> status, game_state |-> game_state]

\* request bodies of update_session: a status, a game state, both or none
UpdateSessionInputs ==
    {UpdateSessionRequest(status, game_state) :
        status \in {None, Some("planned")}, game_state \in {None, Some(CombatJson)}}

\* COALESCE($n, column)
coalesce(option, column) == IF option.some THEN option.value ELSE column

\* the response of a session endpoint, with the call it answers and the
\* query of the call that failed, if one did
SessionReturn(op, user, session_id, db, response) ==
    http' = [pc |-> "done", op |-> op, user |-> user, session_id |-> session_id,
             db |-> db, response |-> response]

\* SessionResponse: the row as RETURNING * gives it
SessionResponse(row, game_state) ==
    [status |-> row.status, started_at |-> row.started_at,
     ended_at |-> row.ended_at, game_state |-> game_state]

\* a session endpoint that runs the UPDATE for any authenticated user
SessionUpdate_by_any_user(op, user, session_id, row, game_state, what) ==
    /\ session_rows' = [session_rows EXCEPT ![session_id] = row]
    /\ db_game_state' = [db_game_state EXCEPT ![session_id] = game_state]
    /\ SessionReturn(op, user, session_id, "ok",
                     Response(200, SessionResponse(row, game_state)))

\* the body of update_session, start_session and end_session: the DM query
\* (a failed query counts as "not the DM"), then one UPDATE .. RETURNING *
SessionUpdate(op, user, session_id, row, game_state, what) ==
    \/ /\ SessionReturn(op, user, session_id, "dm query failed",
                        Response(403, <<"Only the DM can", what, "sessions">>))
       /\ UNCHANGED <<session_rows, db_game_state>>
    \/ /\ ~is_campaign_dm(session_id, user)
       /\ SessionReturn(op, user, session_id, "ok",
                        Response(403, <<"Only the DM can", what, "sessions">>))
       /\ UNCHANGED <<session_rows, db_game_state>>
    \/ /\ is_campaign_dm(session_id, user)
       /\ SessionReturn(op, user, session_id, "update failed",
                        Response(500, <<"Failed to", what, "session">>))
       /\ UNCHANGED <<session_rows, db_game_state>>
    \/ /\ is_campaign_dm(session_id, user)
       /\ session_rows' = [session_rows EXCEPT ![session_id] = row]
       /\ db_game_state' = [db_game_state EXCEPT ![session_id] = game_state]
       /\ SessionReturn(op, user, session_id, "ok",
                        Response(200, SessionResponse(row, game_state)))

\* SET status = 'active', started_at = $1
set_active(row, now) == [row EXCEPT !.status = "active", !.started_at = Some(now)]
\* SET status = 'ended', ended_at = $1
set_ended(row, now) == [row EXCEPT !.status = "ended", !.ended_at = Some(now)]

\* PUT /sessions/:id
UpdateSession(user, session_id, payload) ==
    /\ http.pc = "idle"
    /\ SessionUpdate("update_session", user, session_id,
                     [session_rows[session_id] EXCEPT
                         !.status = coalesce(payload.status, @)],
                     coalesce(payload.game_state, db_game_state[session_id]),
                     "update")
    /\ UNCHANGED <<sessions, pc, msg, current_session, loc, out, outbox, call,
                   character_updated_at, event_logs, dice_call, character_hp,
                   locks, task>>

\* POST /sessions/:id/start
StartSession(user, session_id) ==
    /\ http.pc = "idle"
    /\ SessionUpdate("start_session", user, session_id,
                     set_active(session_rows[session_id], "now"),
                     db_game_state[session_id], "start")
    /\ UNCHANGED <<sessions, pc, msg, current_session, loc, out, outbox, call,
                   character_updated_at, event_logs, dice_call, character_hp,
                   locks, task>>

\* POST /sessions/:id/end
EndSession(user, session_id) ==
    /\ http.pc = "idle"
    /\ SessionUpdate("end_session", user, session_id,
                     set_ended(session_rows[session_id], "now"),
                     db_game_state[session_id], "end")
    /\ UNCHANGED <<sessions, pc, msg, current_session, loc, out, outbox, call,
                   character_updated_at, event_logs, dice_call, character_hp,
                   locks, task>>

\* the session endpoints called by any user, while the DM's connection
\* advances the turn over the websocket
SessionsNext ==
    \/ \E user \in HttpUsers, session_id \in SessionIds, payload \in UpdateSessionInputs :
          UpdateSession(user, session_id, payload) /\ UNCHANGED frames
    \/ \E user \in HttpUsers, session_id \in SessionIds :
          StartSession(user, session_id) /\ UNCHANGED frames
    \/ \E user \in HttpUsers, session_id \in SessionIds :
          EndSession(user, session_id) /\ UNCHANGED frames
    \/ HttpRespond /\ UNCHANGED frames
    \/ \E c \in Conns :
          \/ \E session_id \in SessionIds : NextTurn(c, session_id) /\ UNCHANGED frames
          \/ NextTurnWrite(c) /\ UNCHANGED frames
          \/ SendReply(c) /\ UNCHANGED frames

SpecSessions == Init /\ [][SessionsNext]_vars

(* ------------------- the registry functions, called directly ----------- *)
\* join_session and leave_session take any username and DM flag; the hub
\* specification calls them as a unit test would, keeping the arguments and
\* the connection set found before the call in `call`
Usernames == {"Anonymous", "Alice"}

ConnectionsOf(reg, session_id) ==
    IF session_id \in DOMAIN reg THEN reg[session_id].connections ELSE EmptyMap

HubJoin(session_id, user_id, username, is_dm) ==
    \E session_result \in session_results(session_id) :
        /\ sessions' = join_session(sessions, session_id, user_id, username, is_dm,
                                    session_result)
        /\ call' = [op |-> "join_session", session_id |-> session_id,
                    user_id |-> user_id, username |-> username, is_dm |-> is_dm,
                    before |-> ConnectionsOf(sessions, session_id)]
        /\ UNCHANGED <<db_game_state, pc, msg, current_session, loc, out, outbox, rest>>

HubLeave(session_id, user_id) ==
    /\ sessions' = leave_session(sessions, session_id, user_id)
    /\ call' = [op |-> "leave_session", session_id |-> session_id,
                user_id |-> user_id,
                before |-> ConnectionsOf(sessions, session_id)]
    /\ UNCHANGED <<db_game_state, pc, msg, current_session, loc, out, outbox, rest>>

HubNext ==
    \E session_id \in SessionIds, user_id \in Conns :
        \/ \E username \in Usernames, is_dm \in BOOLEAN :
              HubJoin(session_id, user_id, username, is_dm) /\ UNCHANGED frames
        \/ HubLeave(session_id, user_id) /\ UNCHANGED frames

SpecHub == Init /\ [][HubNext]_vars

(* -------------------- the registry functions, lock by lock ------------- *)
\* SessionState.sessions is an RwLock around the map; every SessionInfo has
\* an RwLock around its connection set.  Each registry function is cut at
\* its lock acquisitions; its effect on the registry is applied when it
\* returns, while it still holds the locks it took.
RegistryOps ==
    {"join_session", "leave_session", "get_session_players",
     "get_session_campaign_id", "broadcast_to_session"}

MapWriters == {"join_session", "leave_session"}
ConnectionsWriters == {"join_session", "leave_session"}

\* connection c enters a registry function (join_session has fetched the
\* session row before it touches a lock) and asks for the map lock, which
\* tokio's RwLock hands out in the order of the requests
LockCall(c, op, session_id) ==
    /\ task[c] = NoTask
    /\ \E session_result \in session_results(session_id) :
         /\ task' = [task EXCEPT ![c] =
                      [op |-> op, session_id |-> session_id, at |-> "start",
                       session_result |-> session_result]]
         /\ locks' = IF op = "join_session" /\ session_result = NoRow
                     THEN locks
                     ELSE [locks EXCEPT !.map_queue = Append(@, c)]
    /\ UNCHANGED <<sessions, db_game_state, pc, msg, current_session, loc, out,
                   outbox, call, character_updated_at, event_logs, http,
                   dice_call, character_hp, session_rows>>

\* join_session whose session lookup gave no row: nothing is locked
LockJoinSkipped(c) ==
    /\ task[c] # NoTask /\ task[c].at = "start"
    /\ task[c].op = "join_session" /\ task[c].session_result = NoRow
    /\ task' = [task EXCEPT ![c] = NoTask]
    /\ UNCHANGED <<sessions, db_game_state, pc, msg, current_session, loc, out,
                   outbox, call, character_updated_at, event_logs, http,
                   dice_call, character_hp, locks, session_rows>>

\* c is the oldest request for the map lock
FirstInQueue(c) == locks.map_queue # <<>> /\ Head(locks.map_queue) = c

\* a join or leave that takes the map lock shared, as the readers do
AcquireMapWrite_shared(c) ==
    /\ task[c] # NoTask /\ task[c].at = "start"
    /\ task[c].op \in MapWriters
    /\ task[c].op = "join_session" => task[c].session_result # NoRow
    /\ FirstInQueue(c)
    /\ locks.map_writer = 0
    /\ locks' = [locks EXCEPT !.map_readers = @ \cup {c}, !.map_queue = Tail(@)]
    /\ task' = [task EXCEPT ![c].at = "map"]
    /\ sessions' = IF task[c].op = "join_session"
                   THEN or_insert(sessions, task[c].session_id,
                                  task[c].session_result.campaign_id)
                   ELSE sessions
    /\ UNCHANGED <<db_game_state, pc, msg, current_session, loc, out,
                   outbox, call, character_updated_at, event_logs, http,
                   dice_call, character_hp, session_rows>>

\* session_state.sessions.write().await; join_session goes on to
\* sessions.entry(session_id).or_insert_with(..)
AcquireMapWrite(c) ==
    /\ task[c] # NoTask /\ task[c].at = "start"
    /\ task[c].op \in MapWriters
    /\ task[c].op = "join_session" => task[c].session_result # NoRow
    /\ FirstInQueue(c)
    /\ locks.map_readers = {} /\ locks.map_writer = 0
    /\ locks' = [locks EXCEPT !.map_writer = c, !.map_queue = Tail(@)]
    /\ task' = [task EXCEPT ![c].at = "map"]
    /\ sessions' = IF task[c].op = "join_session"
                   THEN or_insert(sessions, task[c].session_id,
                                  task[c].session_result.campaign_id)
                   ELSE sessions
    /\ UNCHANGED <<db_game_state, pc, msg, current_session, loc, out,
                   outbox, call, character_updated_at, event_logs, http,
                   dice_call, character_hp, session_rows>>

\* session_state.sessions.read().await
AcquireMapRead(c) ==
    /\ task[c] # NoTask /\ task[c].at = "start"
    /\ task[c].op \notin MapWriters
    /\ FirstInQueue(c)
    /\ locks.map_writer = 0
    /\ locks' = [locks EXCEPT !.map_readers = @ \cup {c}, !.map_queue = Tail(@)]
    /\ task' = [task EXCEPT ![c].at = "map"]
    /\ UNCHANGED <<sessions, db_game_state, pc, msg, current_session, loc, out,
                   outbox, call, character_updated_at, event_logs, http,
                   dice_call, character_hp, session_rows>>

\* does the function, holding the map lock, go on to the connection set
TakesConnections(reg, op, session_id) ==
    \/ op = "join_session"
    \/ op \in {"leave_session", "get_session_players"} /\ session_id \in DOMAIN reg

\* session_info.connections.write().await / .read().await, the map lock held
AcquireConnections(c) ==
    /\ task[c] # NoTask /\ task[c].at = "map"
    /\ TakesConnections(sessions, task[c].op, task[c].session_id)
    /\ IF task[c].op \in ConnectionsWriters
       THEN /\ locks.connections_readers[task[c].session_id] = {}
            /\ locks.connections_writer[task[c].session_id] = 0
            /\ locks' = [locks EXCEPT !.connections_writer[task[c].session_id] = c]
       ELSE /\ locks.connections_writer[task[c].session_id] = 0
            /\ locks' = [locks EXCEPT
                            !.connections_readers[task[c].session_id] = @ \cup {c}]
    /\ task' = [task EXCEPT ![c].at = "connections"]
    /\ UNCHANGED <<sessions, db_game_state, pc, msg, current_session, loc, out,
                   outbox, call, character_updated_at, event_logs, http,
                   dice_call, character_hp, session_rows>>

\* the guards on the connection sets are dropped, the map guard is kept
release_connections_only(held, c) ==
    [held EXCEPT
        !.connections_readers = [s \in SessionIds |-> held.connections_readers[s] \ {c}],
        !.connections_writer = [s \in SessionIds |->
                                  IF held.connections_writer[s] = c THEN 0
                                  ELSE held.connections_writer[s]]]

\* the guards of c are dropped
release(held, c) ==
    [map_readers |-> held.map_readers \ {c},
     map_writer |-> IF held.map_writer = c THEN 0 ELSE held.map_writer,
     map_queue |-> held.map_queue,
     connections_readers |-> [s \in SessionIds |-> held.connections_readers[s] \ {c}],
     connections_writer |-> [s \in SessionIds |->
                               IF held.connections_writer[s] = c THEN 0
                               ELSE held.connections_writer[s]]]

\* the function does its work and returns: join_session inserts into the
\* SessionInfo it got from the entry call, leave_session removes (and drops
\* an emptied entry), the others only read
LockReturn(c) ==
    /\ task[c] # NoTask
    /\ \/ task[c].at = "connections"
       \/ /\ task[c].at = "map"
          /\ ~TakesConnections(sessions, task[c].op, task[c].session_id)
    /\ sessions' =
         IF task[c].op = "join_session"
         THEN insert_connection(sessions, task[c].session_id,
                                ConnectionInfo(c, PlaceholderUsername, PlaceholderIsDm))
         ELSE IF task[c].op = "leave_session"
         THEN leave_session(sessions, task[c].session_id, c)
         ELSE sessions
    /\ locks' = release(locks, c)
    /\ task' = [task EXCEPT ![c] = NoTask]
    /\ UNCHANGED <<db_game_state, pc, msg, current_session, loc, out,
                   outbox, call, character_updated_at, event_logs, http,
                   dice_call, character_hp, session_rows>>

LocksNext ==
    \E c \in Conns :
        \/ \E op \in RegistryOps, session_id \in SessionIds :
              LockCall(c, op, session_id) /\ UNCHANGED frames
        \/ LockJoinSkipped(c) /\ UNCHANGED frames
        \/ AcquireMapWrite(c) /\ UNCHANGED frames
        \/ AcquireMapRead(c) /\ UNCHANGED frames
        \/ AcquireConnections(c) /\ UNCHANGED frames
        \/ LockReturn(c) /\ UNCHANGED frames

SpecLocks == Init /\ [][LocksNext]_vars

\* a step of the registry function connection c is in
LockStep(c) ==
    \/ LockJoinSkipped(c)
    \/ AcquireMapWrite(c)
    \/ AcquireMapRead(c)
    \/ AcquireConnections(c)
    \/ LockReturn(c)

\* the runtime keeps polling every task that can go on: a function that is
\* granted its lock, or has its locks, takes its next step
SpecLocksFair == SpecLocks /\ \A c \in Conns : WF_vars(LockStep(c) /\ UNCHANGED frames)

(* ------------------------------- claims -------------------------------- *)
\* the step in which the handler of c returns (its broadcast, if any, is
\* part of that step)
Returns(c) == pc[c] # "send" /\ pc'[c] = "send"

\* C1: when a handler broadcasts a message to a session, the message is put
\* on the outbound channel of every other connection joined to that session
\* at that moment (the sender gets it as its reply).
C1_BroadcastReachesMembers ==
    [][\A c \in Conns :
         (Returns(c) /\ out'[c].broadcast # NoSession) =>
            \A m \in Members(sessions, out'[c].broadcast) \ {c} :
               [session_id |-> out'[c].broadcast, message |-> out'[c].reply]
                   \in outbox'[m]]_vars

\* C2: whatever a broadcast to session S puts on a connection's outbound
\* channel, that connection is joined to S at that moment.
C2_BroadcastOnlyToMembers ==
    [][\A m \in Conns :
         \A d \in outbox'[m] \ outbox[m] :
            m \in Members(sessions, d.session_id)]_vars

\* a broadcast to S1 has just been made while another connection is joined
\* to S2 only, and nothing has been written to that connection
C2_Witness ==
    \E c \in Conns, m \in Conns :
        /\ pc[c] = "send" /\ out[c].broadcast = "S1"
        /\ m # c
        /\ m \in Members(sessions, "S2") /\ m \notin Members(sessions, "S1")
        /\ outbox[m] = {}

\* C3: a join of a user who is already in the session leaves the number of
\* connections of the session unchanged and stores the username and DM flag
\* of this call.
C3_RejoinOverwrites ==
    (call.op = "join_session" /\ call.user_id \in DOMAIN call.before) =>
        /\ Cardinality(Members(sessions, call.session_id))
              = Cardinality(DOMAIN call.before)
        /\ call.user_id \in Members(sessions, call.session_id)
        /\ sessions[call.session_id].connections[call.user_id]
              = [user_id |-> call.user_id, username |-> call.username,
                 is_dm |-> call.is_dm]

\* C4: a leave of the last connection removes the session's entry from the
\* map; a leave while others are joined keeps the entry, with exactly the
\* other connections, unchanged, in it.
C4_LeaveCollectsEmptyEntry ==
    call.op = "leave_session" =>
        LET others == DOMAIN call.before \ {call.user_id}
        IN  /\ (others = {} => call.session_id \notin DOMAIN sessions)
            /\ (others # {} =>
                  /\ call.session_id \in DOMAIN sessions
                  /\ DOMAIN sessions[call.session_id].connections = others
                  /\ \A u \in others :
                        sessions[call.session_id].connections[u] = call.before[u])

\* the last member of a session has just left and its entry is gone, while
\* the other session still has a member
C4_Witness ==
    /\ call.op = "leave_session"
    /\ DOMAIN call.before = {call.user_id}
    /\ call.session_id \notin DOMAIN sessions
    /\ sessions # EmptyMap

\* C5: every entry of the session map has a non-empty connection set.
C5_NoEmptyEntry ==
    \A s \in DOMAIN sessions : DOMAIN sessions[s].connections # {}

\* a LeaveSession of connection c for S1 has been handled and S1 has no
\* entry, while another connection is a member of S2's entry
C5_Witness ==
    \E c \in Conns, m \in Conns :
        /\ pc[c] = "send" /\ msg[c].type = "LeaveSession"
        /\ msg[c].session_id = "S1"
        /\ "S1" \notin DOMAIN sessions
        /\ m # c /\ Members(sessions, "S2") = {m}

\* C6: a user id is in the connection set of at most one session.
C6_AtMostOneSession ==
    \A c \in Conns :
        Cardinality({s \in DOMAIN sessions : c \in Members(sessions, s)}) <= 1

\* the message a handler that found its sender not to be the DM returns
DmOnlyError(type) ==
    IF type = "UpdateInitiative"
    THEN Error("Only the DM can update initiative")
    ELSE Error("Only the DM can advance turns")

\* C7: an UpdateInitiative or NextTurn whose sender is not the DM of the
\* named session's campaign is answered with the DM-only Error (with the
\* database Error when the DM query itself fails), broadcasts nothing and
\* leaves every persisted game state as it was.
C7_NonDmDenied ==
    [][\A c \in Conns :
         ( /\ pc[c] = "idle"
           /\ msg'[c].type \in {"UpdateInitiative", "NextTurn"}
           /\ CampaignDm[SessionCampaign[msg'[c].session_id]] # c )
         => /\ pc'[c] = "send"
            /\ out'[c].reply \in {DmOnlyError(msg'[c].type), Error("Database error")}
            /\ out'[c].broadcast = NoSession
            /\ outbox' = outbox
            /\ db_game_state' = db_game_state]_vars

\* a player of S1's campaign who is not its DM has been refused a NextTurn
\* on S1 while S1 holds a game state with a turn order
C7_Witness ==
    \E c \in Conns :
        /\ pc[c] = "send" /\ msg[c].type = "NextTurn" /\ msg[c].session_id = "S1"
        /\ CampaignDm[SessionCampaign["S1"]] # c
        /\ out[c].reply = Error("Only the DM can advance turns")
        /\ parses_as_game_state(db_game_state["S1"])
        /\ db_game_state["S1"].initiative_order # <<>>

\* the step in which NextTurn, having fetched the row, writes and returns
NextTurnWrites(c) ==
    pc[c] = "write" /\ msg[c].type = "NextTurn" /\ pc'[c] = "send"

\* C8: a successful NextTurn on a non-empty order whose current_turn is the
\* id of the entry at position i (0-based) sets current_turn to the id of the
\* entry at position (i+1) mod n and adds 1 to round exactly when that
\* position is 0.
C8_AdvanceFromPosition ==
    [][\A c \in Conns :
         (NextTurnWrites(c) /\ out'[c].reply.type = "TurnChanged") =>
            LET before == from_value(loc[c].session_game_state)
                after == from_value(db_game_state'[msg[c].session_id])
                order == before.initiative_order
                n == Len(order)
            IN  \A i \in 0..(n - 1) :
                  order[i + 1].id = before.current_turn =>
                     /\ after.current_turn = order[((i + 1) % n) + 1].id
                     /\ after.round = before.round + (IF (i + 1) % n = 0 THEN 1 ELSE 0)]_vars

\* the same statement on the orders whose entry ids are pairwise distinct
\* (the orders UpdateInitiative would store if it refused repeated ids)
C8_OnDistinctIds ==
    [][\A c \in Conns :
         (NextTurnWrites(c) /\ out'[c].reply.type = "TurnChanged") =>
            LET before == from_value(loc[c].session_game_state)
                after == from_value(db_game_state'[msg[c].session_id])
                order == before.initiative_order
                n == Len(order)
            IN  Cardinality(Ids(order)) = n =>
                  \A i \in 0..(n - 1) :
                     order[i + 1].id = before.current_turn =>
                        /\ after.current_turn = order[((i + 1) % n) + 1].id
                        /\ after.round
                              = before.round + (IF (i + 1) % n = 0 THEN 1 ELSE 0)]_vars

\* C9: a NextTurn that finds the initiative order empty ends in an Error,
\* whatever current_turn is, and broadcasts no TurnChanged.
C9_EmptyOrderFails ==
    [][\A c \in Conns :
         ( /\ NextTurnWrites(c)
           /\ from_value(loc[c].session_game_state).initiative_order = <<>> )
         => /\ out'[c].reply.type = "Error"
            /\ out'[c].broadcast = NoSession]_vars

\* C10: a NextTurn that finds the initiative order empty writes nothing to
\* the stored game_state blob.
C10_EmptyOrderWritesNothing ==
    [][\A c \in Conns :
         ( /\ NextTurnWrites(c)
           /\ from_value(loc[c].session_game_state).initiative_order = <<>> )
         => db_game_state' = db_game_state]_vars

\* C11: a NextTurn on a non-empty order whose current_turn is unset or is
\* the id of no entry starts at the first entry: afterwards current_turn is
\* the id of the first entry and round is what it was, for every length.
C11_StartsAtFirstEntry ==
    [][\A c \in Conns :
         (NextTurnWrites(c) /\ out'[c].reply.type = "TurnChanged") =>
            LET before == from_value(loc[c].session_game_state)
                after == from_value(db_game_state'[msg[c].session_id])
                order == before.initiative_order
            IN  (order # <<>> /\ before.current_turn \notin Ids(order)) =>
                   /\ after.current_turn = order[1].id
                   /\ after.round = before.round]_vars

\* the sender is the DM or a listed player of the campaign of the session
AllowedToJoin(session_id, user_id) ==
    /\ session_id \in SessionIds
    /\ \/ CampaignDm[SessionCampaign[session_id]] = user_id
       \/ <<SessionCampaign[session_id], user_id>> \in CampaignPlayers

JoinSessionReturns(c) == Returns(c) /\ msg'[c].type = "JoinSession"

\* C17: JoinSession registers the sender and answers SessionJoined when the
\* sender is the DM or a listed player of the session's campaign; any other
\* sender gets an Error and is not registered (a failed access query is an
\* Error for everyone).
C17_JoinIffAllowed ==
    [][\A c \in Conns :
         JoinSessionReturns(c) =>
            LET session_id == msg'[c].session_id
                reply == out'[c].reply
            IN  \/ /\ reply.type = "SessionJoined"
                   /\ AllowedToJoin(session_id, c)
                   /\ c \in Members(sessions', session_id)
                \/ /\ reply.type = "Error"
                   /\ sessions' = sessions
                   /\ AllowedToJoin(session_id, c)
                         => reply = Error("Database error")]_vars

\* the same, not asking that a sender answered SessionJoined is registered
C17_OnlyAllowedAnswered ==
    [][\A c \in Conns :
         JoinSessionReturns(c) =>
            LET session_id == msg'[c].session_id
                reply == out'[c].reply
            IN  \/ /\ reply.type = "SessionJoined"
                   /\ AllowedToJoin(session_id, c)
                \/ /\ reply.type = "Error"
                   /\ sessions' = sessions
                   /\ AllowedToJoin(session_id, c)
                         => reply = Error("Database error")]_vars

\* i32's Display: the decimal digits, a minus sign before a negative value
RECURSIVE to_digits(_)
to_digits(n) ==
    IF n < 10 THEN <<Digits[n + 1]>>
    ELSE to_digits(n \div 10) \o <<Digits[(n % 10) + 1]>>

to_string(n) == IF n < 0 THEN <<"-">> \o to_digits(0 - n) ELSE to_digits(n)

\* the part of a dice expression before its first '+'
DiceTerm(dice) ==
    IF \A i \in 1..Len(dice) : dice[i] # "+" THEN dice
    ELSE SubSeq(dice, 1, (CHOOSE p \in 1..Len(dice) :
                             dice[p] = "+" /\ \A j \in 1..(p - 1) : dice[j] # "+") - 1)

\* digit strings of equal length: a <= b
RECURSIVE DigitsLeq(_, _)
DigitsLeq(a, b) ==
    IF a = <<>> THEN TRUE
    ELSE IF DigitValue(Head(a)) # DigitValue(Head(b))
    THEN DigitValue(Head(a)) < DigitValue(Head(b))
    ELSE DigitsLeq(Tail(a), Tail(b))

RECURSIVE StripZeros(_)
StripZeros(s) == IF s # <<>> /\ Head(s) = "0" THEN StripZeros(Tail(s)) ELSE s

\* s is the decimal numeral of an integer in 1..i32::MAX
PositiveNumeral(s) ==
    /\ s # <<>>
    /\ \A i \in 1..Len(s) : IsDigit(s[i])
    /\ LET significant == StripZeros(s)
           max == to_string(MaxI32)
       IN  /\ significant # <<>>
           /\ \/ Len(significant) < Len(max)
              \/ Len(significant) = Len(max) /\ DigitsLeq(significant, max)

\* a dice term is "<count>d<sides>" with count and sides positive
ValidDiceTerm(term) ==
    \E k \in 1..Len(term) :
        /\ term[k] = "d"
        /\ \A j \in 1..Len(term) : term[j] = "d" => j = k
        /\ PositiveNumeral(SubSeq(term, 1, k - 1))
        /\ PositiveNumeral(SubSeq(term, k + 1, Len(term)))

\* connection c stops handling a DiceRoll: it returns, or its task dies
DiceRollEnds(c) ==
    pc[c] = "idle" /\ pc'[c] # "idle" /\ msg'[c].type = "DiceRoll"

\* C15: a DiceRoll whose dice term is invalid ("0d6", "d20", "2x6") fails
\* with an Error: no roll is drawn, and no DiceRolled is returned to the
\* sender or broadcast.
C15_InvalidTermFails ==
    [][\A c \in Conns :
         (DiceRollEnds(c) /\ ~ValidDiceTerm(DiceTerm(msg'[c].dice))) =>
            /\ Returns(c)
            /\ out'[c].reply.type = "Error"
            /\ out'[c].broadcast = NoSession
            /\ outbox' = outbox]_vars

\* a member of a session has sent "0d6" and is about to get its answer
C15_Witness ==
    \E c \in Conns :
        /\ pc[c] = "send"
        /\ msg[c].type = "DiceRoll"
        /\ msg[c].dice = <<"0", "d", "6">>
        /\ ~ValidDiceTerm(DiceTerm(msg[c].dice))
        /\ current_session[c] # NoSession
        /\ out[c].reply = Error("Dice count and sides must be positive")

\* the sender's current session exists and the sender is the DM or a listed
\* player of its campaign
MemberOrDm(c) ==
    current_session[c] # NoSession /\ AllowedToJoin(current_session[c], c)

\* C18: DiceRoll, ChatMessage and AIRequest are executed and broadcast only
\* when the sender is a member or the DM of the campaign of its current
\* session; any other sender, one with no session included, gets an Error
\* and no event is returned, broadcast or logged.
C18_EventsNeedMembership ==
    [][\A c \in Conns :
         (/\ Returns(c)
          /\ msg'[c].type \in {"DiceRoll", "ChatMessage", "AIRequest"}
          /\ ~MemberOrDm(c)) =>
            /\ out'[c].reply.type = "Error"
            /\ out'[c].broadcast = NoSession
            /\ event_logs' = event_logs]_vars

\* C19: UpdateGameState stores the blob in the row of the sender's session
\* and broadcasts GameStateUpdated exactly when the sender is the DM of the
\* campaign of that session (a failed UPDATE apart); every other sender
\* gets an Error and the stored blob stays as it was.
C19_DmUpdatesGameState ==
    [][\A c \in Conns :
         (Returns(c) /\ msg'[c].type = "UpdateGameState") =>
            LET session_id == current_session[c]
                reply == out'[c].reply
            IN  IF /\ session_id \in SessionIds
                   /\ CampaignDm[SessionCampaign[session_id]] = c
                THEN \/ /\ reply = [type |-> "GameStateUpdated",
                                     game_state |-> msg'[c].game_state]
                        /\ out'[c].broadcast = session_id
                        /\ db_game_state' = [db_game_state EXCEPT
                                                ![session_id] = msg'[c].game_state]
                     \/ /\ reply = Error("Failed to update game state")
                        /\ db_game_state' = db_game_state
                ELSE /\ reply.type = "Error"
                     /\ out'[c].broadcast = NoSession
                     /\ db_game_state' = db_game_state]_vars

\* the half of it about the senders that are not the DM
C19_OthersDenied ==
    [][\A c \in Conns :
         (Returns(c) /\ msg'[c].type = "UpdateGameState") =>
            LET session_id == current_session[c]
            IN  ~(/\ session_id \in SessionIds
                  /\ CampaignDm[SessionCampaign[session_id]] = c) =>
                    /\ out'[c].reply.type = "Error"
                    /\ out'[c].broadcast = NoSession
                    /\ db_game_state' = db_game_state]_vars

\* the sender owns the character or is the DM of its campaign, and the
\* character belongs to the campaign of the sender's current session
MayUpdateCharacter(c, character_id) ==
    /\ character_id \in CharacterIds
    /\ \/ CharacterPlayer[character_id] = c
       \/ CampaignDm[CharacterCampaign[character_id]] = c
    /\ current_session[c] \in SessionIds
    /\ CharacterCampaign[character_id] = SessionCampaign[current_session[c]]

\* C20: UpdateCharacter is applied only when the sender owns the character
\* or is the DM of its campaign, and the character belongs to the campaign
\* of the sender's current session; otherwise (no current session
\* included) the row is not written and the sender gets an Error.
C20_CharacterOfSessionCampaign ==
    [][\A c \in Conns :
         (/\ Returns(c)
          /\ msg'[c].type = "UpdateCharacter"
          /\ ~MayUpdateCharacter(c, msg'[c].character_id)) =>
            /\ out'[c].reply.type = "Error"
            /\ character_updated_at' = character_updated_at]_vars

\* the same for the senders whose current session is in the registry
C20_WhenSessionRegistered ==
    [][\A c \in Conns :
         (/\ Returns(c)
          /\ msg'[c].type = "UpdateCharacter"
          /\ current_session[c] \in DOMAIN sessions
          /\ ~MayUpdateCharacter(c, msg'[c].character_id)) =>
            /\ out'[c].reply.type = "Error"
            /\ character_updated_at' = character_updated_at]_vars

\* C12: whatever UpdateInitiative, NextTurn, UpdateGameState and HTTP
\* update_initiative have written to a session, a current_turn that is set
\* in the persisted game state is the id of an entry of its initiative_order.
C12_CurrentTurnInOrder ==
    \A session_id \in SessionIds :
        parses_as_game_state(db_game_state[session_id]) =>
            LET game_state == from_value(db_game_state[session_id])
            IN  game_state.current_turn # NoTurn =>
                   game_state.current_turn \in Ids(game_state.initiative_order)

\* C13: the persisted round of a session never decreases: under every
\* interleaving of NextTurn, UpdateInitiative, UpdateGameState and HTTP
\* update_initiative, each value written is >= the one it replaces.
C13_RoundNeverDecreases ==
    [][\A session_id \in SessionIds :
         (/\ parses_as_game_state(db_game_state[session_id])
          /\ parses_as_game_state(db_game_state'[session_id])) =>
            from_value(db_game_state'[session_id]).round
               >= from_value(db_game_state[session_id]).round]_vars

\* the same for the steps of the websocket handlers alone
C13_WebsocketWrites ==
    [][http' = http =>
         \A session_id \in SessionIds :
            (/\ parses_as_game_state(db_game_state[session_id])
             /\ parses_as_game_state(db_game_state'[session_id])) =>
               from_value(db_game_state'[session_id]).round
                  >= from_value(db_game_state[session_id]).round]_vars

\* C21: once a LeaveSession of a connection has been handled, the
\* connection is in the connection set of the session it had joined no
\* more, whatever session id the message carried.
C21_LeaveUnregisters ==
    [][\A c \in Conns :
         (/\ Returns(c)
          /\ msg'[c].type = "LeaveSession"
          /\ current_session[c] # NoSession) =>
            c \notin Members(sessions', current_session[c])]_vars

\* the same when the message carries the id of the session joined
C21_LeaveOfOwnSession ==
    [][\A c \in Conns :
         (/\ Returns(c)
          /\ msg'[c].type = "LeaveSession"
          /\ current_session[c] # NoSession
          /\ msg'[c].session_id = current_session[c]) =>
            c \notin Members(sessions', current_session[c])]_vars

\* C22: however the socket of a connection closes (Close frame, end or
\* failure of the inbound stream, failed write of a reply), leave has been
\* called for it: a connection whose handler has ended is in no session's
\* connection set.
C22_ClosedIsUnregistered ==
    \A c \in Conns :
        pc[c] = "closed" =>
            \A session_id \in SessionIds : c \notin Members(sessions, session_id)

\* C23: an Error outcome of a message goes to the sender alone: the handler
\* that returns an Error has passed nothing to broadcast_to_session and has
\* written to no other connection.
C23_ErrorsOnlyToSender ==
    [][\A c \in Conns :
         (Returns(c) /\ out'[c].reply.type = "Error") =>
            /\ out'[c].broadcast = NoSession
            /\ outbox' = outbox]_vars

\* an Error is on its way to a sender whose session has another member
C23_Witness ==
    \E c \in Conns, m \in Conns :
        /\ m # c
        /\ pc[c] = "send"
        /\ out[c].reply.type = "Error"
        /\ out[c].broadcast = NoSession
        /\ current_session[c] # NoSession
        /\ {c, m} \subseteq Members(sessions, current_session[c])

\* C24: no error outcome ends the handler of a connection: the handler
\* ends on a Close frame, on the end of the inbound stream or on a failed
\* write of a reply, never while it handles a message.
C24_OnlyTransportCloseEnds ==
    [][\A c \in Conns :
         (pc[c] # "closed" /\ pc'[c] = "closed") =>
            \/ pc[c] = "send"
            \/ pc[c] = "idle" /\ msg'[c] = NoMessage]_vars

\* the part of C24 that holds: an Error that a handler returned can be
\* written to the sender, and the loop then waits for the next frame
C24_ErrorKeepsLoopRunning ==
    \A c \in Conns :
        (pc[c] = "send" /\ out[c].reply.type = "Error") =>
            ENABLED (SendReply(c) /\ pc'[c] = "idle")

\* C25: the read-modify-write of the game state has no version check: a
\* writer whose fetched blob is no longer the stored one can still write
\* and report success, and what it stores is computed from the blob it
\* fetched alone, so that the change made in between is lost.
C25_LaterWriteWins ==
    /\ (/\ http.pc = "write"
        /\ db_game_state[http.payload.session_id] # http.session_game_state) =>
          ENABLED (/\ HttpUpdateInitiativeWrite
                   /\ http'.response.status = 200
                   /\ db_game_state'[http.payload.session_id] =
                         to_value(apply_request(from_value(http.session_game_state),
                                                http.payload)))
    /\ \A c \in Conns :
          (/\ pc[c] = "write"
           /\ msg[c].type = "UpdateInitiative"
           /\ db_game_state[msg[c].session_id] # loc[c].session_game_state) =>
             ENABLED (/\ UpdateInitiativeWrite(c)
                      /\ out'[c].reply.type = "InitiativeUpdated"
                      /\ from_value(db_game_state'[msg[c].session_id]).round =
                            from_value(loc[c].session_game_state).round)

\* a NextTurn and an HTTP update_initiative that carries no round have both
\* succeeded on the same session, the NextTurn reporting round 2, and the
\* stored round is 1: the NextTurn's write is lost
C25_Witness ==
    \E c \in Conns :
        /\ pc[c] = "send"
        /\ msg[c].type = "NextTurn"
        /\ out[c].reply.type = "TurnChanged"
        /\ out[c].reply.round = 2
        /\ http.pc = "done"
        /\ http.response.status = 200
        /\ db_game_state[msg[c].session_id].initiative_order = <<EntryA, EntryB, EntryC>>
        /\ db_game_state[msg[c].session_id].round = 1

\* C26: while a broadcast on session A holds the locks it needs, a join or
\* a leave on another session B that is about to take its first lock can
\* take it.
C26_BroadcastBlocksNoOtherSession ==
    \A b \in Conns, t \in Conns :
        (/\ task[b] # NoTask /\ task[t] # NoTask
         /\ task[b].op = "broadcast_to_session" /\ task[b].at = "map"
         /\ task[t].op \in {"join_session", "leave_session"}
         /\ task[t].at = "start"
         /\ task[t].op = "join_session" => task[t].session_result # NoRow
         /\ task[t].session_id # task[b].session_id) =>
            ENABLED AcquireMapWrite(t)

\* what never blocks such a join or leave is a lock on a connection set
C26_ConnectionSetsIndependent ==
    \A b \in Conns, t \in Conns :
        (/\ task[b] # NoTask /\ task[t] # NoTask
         /\ task[b].at = "connections"
         /\ task[t].at = "map"
         /\ TakesConnections(sessions, task[t].op, task[t].session_id)
         /\ task[t].session_id # task[b].session_id) =>
            ENABLED AcquireConnections(t)

\* the blob written by a handler that found an unparsable blob and the
\* initiative order `order` to store
FromEmptyState(order, combat_active) ==
    [initiative_order |-> order, current_turn |-> NoTurn, round |-> 1,
     combat_active |-> combat_active, conditions |-> <<>>]

WritesOverUnparsable(c) ==
    /\ pc[c] = "write" /\ pc'[c] = "send"
    /\ ~parses_as_game_state(loc[c].session_game_state)

\* C27: when the stored blob does not parse as a GameState, UpdateInitiative
\* and NextTurn go on as from the empty state (no entries, no current turn,
\* round 1, combat off, no conditions): UpdateInitiative stores the new
\* order on it, NextTurn finds no initiative order; only a failed UPDATE
\* makes them fail otherwise.
C27_UnparsableIsEmptyState ==
    [][\A c \in Conns :
         WritesOverUnparsable(c) =>
            LET session_id == msg[c].session_id
            IN  \/ /\ out'[c].reply = Error("Failed to update game state")
                   /\ db_game_state' = db_game_state
                \/ /\ msg[c].type = "UpdateInitiative"
                   /\ out'[c].reply =
                         [type |-> "InitiativeUpdated", session_id |-> session_id,
                          initiative_order |-> msg[c].initiative_order,
                          current_turn |-> NoTurn]
                   /\ db_game_state'[session_id] =
                         FromEmptyState(msg[c].initiative_order, TRUE)
                \/ /\ msg[c].type = "NextTurn"
                   /\ out'[c].reply = Error("No initiative order set")
                   /\ db_game_state'[session_id] = FromEmptyState(<<>>, FALSE)]_vars

\* the DM has stored an order on a session whose blob was never written
C27_Witness ==
    \E c \in Conns :
        /\ pc[c] = "send"
        /\ msg[c].type = "UpdateInitiative"
        /\ out[c].reply.type = "InitiativeUpdated"
        /\ msg[c].initiative_order # <<>>
        /\ db_game_state[msg[c].session_id]
              = FromEmptyState(msg[c].initiative_order, TRUE)

\* the messages that change the persisted state of a session
SessionStateMessages ==
    {"UpdateGameState", "UpdateInitiative", "NextTurn", "UpdateHP", "UpdateCharacter",
     "CreateEventLog"}

\* the write of the message that connection c is handling is in the
\* database after the step
Persisted(c) ==
    LET m == msg'[c]
    IN  CASE m.type = "UpdateGameState" ->
               /\ current_session[c] # NoSession
               /\ db_game_state'[current_session[c]] = m.game_state
          [] m.type = "UpdateInitiative" ->
               /\ pc[c] = "write"
               /\ db_game_state'[m.session_id] =
                     to_value(set_initiative(from_value(loc[c].session_game_state),
                                             m.initiative_order))
          [] m.type = "NextTurn" ->
               /\ pc[c] = "write"
               /\ db_game_state'[m.session_id] =
                     to_value(advance_turn(from_value(loc[c].session_game_state)))
          [] m.type = "UpdateHP" ->
               /\ m.character_id \in CharacterIds
               /\ character_updated_at'[m.character_id] =
                     character_updated_at[m.character_id] + 1
               /\ character_hp'[m.character_id] =
                     update_hp(character_hp[m.character_id], m.hp_current, m.hp_max)
          [] m.type = "UpdateCharacter" ->
               /\ m.character_id \in CharacterIds
               /\ character_updated_at'[m.character_id] =
                     character_updated_at[m.character_id] + 1
          [] m.type = "CreateEventLog" ->
               [session_id |-> m.session_id, event_type |-> m.event_type,
                created_by |-> c] \in event_logs'

\* C28: a failed persistence call of a session-state-mutating message is
\* never swallowed: when the handler of such a message returns, either its
\* write is in the database, or the sender gets an Error and nothing was
\* broadcast.
C28_FailedWriteIsAnError ==
    [][\A c \in Conns :
         (Returns(c) /\ msg'[c].type \in SessionStateMessages) =>
            \/ Persisted(c)
            \/ /\ out'[c].reply.type = "Error"
               /\ out'[c].broadcast = NoSession
               /\ outbox' = outbox]_vars

\* the UPDATE of UpdateHP has failed for a session member who may write the
\* character: an Error is the reply, the row is as it was
C28_Witness ==
    \E c \in Conns :
        /\ pc[c] = "send"
        /\ msg[c].type = "UpdateHP"
        /\ current_session[c] # NoSession
        /\ out[c] = [reply |-> Error("Failed to update character HP"),
                     broadcast |-> NoSession]
        /\ character_updated_at[msg[c].character_id] = 0
        /\ character_hp[msg[c].character_id] = CharacterHp[msg[c].character_id]

\* C29: in every persisted game state that parses, the ids of the entries
\* of initiative_order are pairwise distinct.
C29_EntryIdsDistinct ==
    \A session_id \in SessionIds :
        parses_as_game_state(db_game_state[session_id]) =>
            LET order == from_value(db_game_state[session_id]).initiative_order
            IN  Cardinality(Ids(order)) = Len(order)

UpdateInitiativeWrites(c) ==
    pc[c] = "write" /\ msg[c].type = "UpdateInitiative" /\ pc'[c] = "send"

\* C30: a successful UpdateInitiative persists the supplied list in the
\* supplied order with combat_active true, and current_turn, round and
\* conditions as read from the stored state; InitiativeUpdated carries
\* that list and that current_turn.
C30_UpdateInitiativeFrame ==
    [][\A c \in Conns :
         (UpdateInitiativeWrites(c) /\ out'[c].reply.type = "InitiativeUpdated") =>
            LET before == from_value(loc[c].session_game_state)
                after == db_game_state'[msg[c].session_id]
            IN  /\ parses_as_game_state(after)
                /\ after.initiative_order = msg[c].initiative_order
                /\ after.combat_active = TRUE
                /\ after.current_turn = before.current_turn
                /\ after.round = before.round
                /\ after.conditions = before.conditions
                /\ out'[c].reply.initiative_order = msg[c].initiative_order
                /\ out'[c].reply.current_turn = before.current_turn]_vars

\* an order that is not sorted by initiative score has been stored as sent
\* while a turn was in progress
C30_Witness ==
    \E c \in Conns :
        /\ pc[c] = "send"
        /\ msg[c].type = "UpdateInitiative"
        /\ out[c].reply.type = "InitiativeUpdated"
        /\ msg[c].initiative_order = <<EntryA, EntryB, EntryC>>
        /\ out[c].reply.current_turn # NoTurn
        /\ db_game_state[msg[c].session_id].initiative_order
              = <<EntryA, EntryB, EntryC>>

\* the events that answer a successfully handled shared-state message
SharedStateEvents ==
    {"DiceRolled", "ChatMessage", "GameStateUpdated", "CharacterUpdated",
     "InitiativeUpdated", "TurnChanged", "HPUpdated", "EventLogCreated"}

\* C32: a shared-state message that is handled successfully has its
\* operation executed, then its event broadcast to the session, then the
\* same event returned: whenever such an event is returned, the operation
\* is done and the event was passed to broadcast_to_session.
C32_EventBroadcastThenReturned ==
    [][\A c \in Conns :
         (Returns(c) /\ out'[c].reply.type \in SharedStateEvents) =>
            /\ out'[c].broadcast # NoSession
            /\ msg'[c].type \in SessionStateMessages => Persisted(c)]_vars

\* the part of C32 that holds: the operation is done before the event is
\* returned, and the event is broadcast whenever the sender has a current
\* session or the message names one
C32_WhenThereIsASession ==
    [][\A c \in Conns :
         (Returns(c) /\ out'[c].reply.type \in SharedStateEvents) =>
            /\ msg'[c].type \in SessionStateMessages => Persisted(c)
            /\ msg'[c].type \in {"UpdateInitiative", "NextTurn", "CreateEventLog"} =>
                  out'[c].broadcast = msg'[c].session_id
            /\ msg'[c].type \in {"DiceRoll", "ChatMessage", "UpdateCharacter", "UpdateHP"} =>
                  out'[c].broadcast = current_session[c]]_vars

\* C33: frames of one connection are handled one at a time, each to its
\* end, and every text frame that is read gets its reply: a frame is read
\* only between two handlings, and a handling that began goes on to the
\* write of its one reply.
C33_EveryFrameIsAnswered ==
    [][\A c \in Conns :
         /\ frames'[c] # frames[c] => pc[c] = "idle" /\ out[c] = NoOut
         /\ (pc[c] = "idle" /\ msg'[c] # NoMessage) =>
               pc'[c] \in {"join_players", "write", "send"}
         /\ pc[c] \in {"join_players", "write"} => pc'[c] \in {pc[c], "send"}
         /\ (pc[c] = "send" /\ pc'[c] # "send") => out'[c] = NoOut]_vars

\* the part of C33 that holds: one frame at a time, and a handling ends in
\* the write of one reply unless the task itself has ended
C33_OneAtATime ==
    [][\A c \in Conns :
         /\ frames'[c] # frames[c] => pc[c] = "idle" /\ out[c] = NoOut
         /\ (pc[c] = "idle" /\ msg'[c] # NoMessage) =>
               pc'[c] \in {"join_players", "write", "send", "closed"}
         /\ pc[c] \in {"join_players", "write"} => pc'[c] \in {pc[c], "send"}
         /\ (pc[c] = "send" /\ pc'[c] # "send") => out'[c] = NoOut]_vars

\* C34: HTTP update_initiative.  Called by the DM of the session's campaign
\* it can answer 200, and when it does the stored game state has the
\* request's initiative_order and current_turn, and its round and
\* combat_active are the request's when present and the ones read from the
\* session row otherwise; called by anyone else it answers 403; a response
\* other than 200 leaves the stored game state as it was.
C34_HttpUpdateInitiative ==
    /\ [][/\ (http.pc = "write" /\ http'.pc = "done" /\ http'.response.status = 200) =>
               LET before == from_value(http.session_game_state)
                   after == db_game_state'[http.payload.session_id]
               IN  /\ parses_as_game_state(after)
                   /\ after.initiative_order = http.payload.initiative_order
                   /\ after.current_turn = http.payload.current_turn
                   /\ after.round = IF http.payload.round.some
                                    THEN http.payload.round.value ELSE before.round
                   /\ after.combat_active = IF http.payload.combat_active.some
                                            THEN http.payload.combat_active.value
                                            ELSE before.combat_active
          /\ (http.pc # "done" /\ http'.pc = "done" /\ http'.response.status # 200) =>
               db_game_state' = db_game_state]_vars
    /\ [](http.pc = "idle" =>
            \A user \in HttpUsers, payload \in HttpPayloads :
               IF is_campaign_dm(payload.session_id, user)
               THEN ENABLED (HttpUpdateInitiative(user, payload) /\ http'.pc = "write")
               ELSE ~ENABLED (/\ HttpUpdateInitiative(user, payload)
                              /\ \/ http'.pc # "done"
                                 \/ http'.response.status # 403))
    /\ [](http.pc = "write" =>
            /\ is_campaign_dm(http.payload.session_id, http.user)
            /\ ENABLED (HttpUpdateInitiativeWrite /\ http'.response.status = 200))

\* the DM's request, with no round and no combat flag, was answered 200 on
\* a session in combat: the first entry is on turn, round and combat flag
\* are the stored ones
C34_Witness ==
    /\ http.pc = "done"
    /\ http.response.status = 200
    /\ \E session_id \in SessionIds :
          db_game_state[session_id] =
             [initiative_order |-> <<EntryA, EntryB, EntryC>>, current_turn |-> "A",
              round |-> 1, combat_active |-> TRUE, conditions |-> <<>>]

\* C38: while no message of a connection is being handled, its
\* current_session agrees with the registry: set to S, the user is in S's
\* connection set; unset, the user is in no connection set.
C38_CurrentSessionIsRegistered ==
    \A c \in Conns :
        pc[c] = "idle" =>
            IF current_session[c] # NoSession
            THEN c \in Members(sessions, current_session[c])
            ELSE \A session_id \in SessionIds : c \notin Members(sessions, session_id)

\* C39: a SessionJoined reply lists the sender, and its players are the
\* members the registry holds for the session once the sender is
\* registered.
C39_SessionJoinedListsSender ==
    [][\A c \in Conns :
         (Returns(c) /\ out'[c].reply.type = "SessionJoined") =>
            LET reply == out'[c].reply
            IN  /\ c \in Members(sessions', reply.session_id)
                /\ c \in {player.user_id : player \in reply.players}
                /\ reply.players = get_session_players(sessions', reply.session_id)]_vars

\* the part of C39 that holds: the players of the reply are what the
\* registry holds for the session when the reply is built
C39_PlayersAreTheRegistry ==
    [][\A c \in Conns :
         (Returns(c) /\ out'[c].reply.type = "SessionJoined") =>
            out'[c].reply.players =
               get_session_players(sessions', out'[c].reply.session_id)]_vars

(* ------------------- roll_dice called on its own ----------------------- *)
\* roll_dice is a pure function of its argument and of the rolls drawn: it
\* is applied once to every expression of DiceInputs
InitDice ==
    /\ InitServer
    /\ dice_call \in {[dice |-> dice, result |-> NotRolled] : dice \in DiceInputs}

RollDice ==
    /\ dice_call.result = NotRolled
    /\ \E result \in roll_dice(dice_call.dice) :
            dice_call' = [dice_call EXCEPT !.result = result]
    /\ UNCHANGED <<sessions, db_game_state, pc, msg, current_session, loc, out,
                   outbox, call, character_updated_at, event_logs, http, more, frames>>

SpecDice == InitDice /\ [][RollDice]_vars

\* does acc plus the rolls (all positive) equal total, as integers
RECURSIVE sums_to(_, _, _)
sums_to(acc, rolls, total) ==
    IF rolls = <<>> THEN acc = total
    ELSE IF acc > 0 /\ Head(rolls) > MaxI32 - acc THEN FALSE
    ELSE sums_to(acc + Head(rolls), Tail(rolls), total)

\* roll_dice returned `count` rolls in [1, sides] and their sum plus modifier
RolledExactly(result, count, sides, modifier) ==
    /\ result.kind = "Ok"
    /\ Len(result.rolls) = count
    /\ \A i \in 1..Len(result.rolls) : result.rolls[i] \in 1..sides
    /\ sums_to(modifier, result.rolls, result.total)

FormatCounts == {1, 2, 22}
FormatSides == {1, 2, 6, MaxI32}
FormatModifiers == {-1, 0, 1, 3, MaxI32}

\* C14: for every count >= 1, sides >= 1 and modifier, "{count}d{sides}" and
\* "{count}d{sides}+{modifier}" roll successfully: exactly count values, each
\* in [1, sides], and a total equal to their sum plus the modifier (0 when
\* the modifier part is absent).
C14_FormattedDiceRoll ==
    \A count \in FormatCounts, sides \in FormatSides :
        LET term == to_string(count) \o <<"d">> \o to_string(sides)
        IN  /\ dice_call.dice = term /\ dice_call.result # NotRolled
                => RolledExactly(dice_call.result, count, sides, 0)
            /\ \A modifier \in FormatModifiers :
                    /\ dice_call.dice = term \o <<"+">> \o to_string(modifier)
                    /\ dice_call.result # NotRolled
                    => RolledExactly(dice_call.result, count, sides, modifier)

\* the same for the expressions whose exact total fits an i32
C14_WhenTotalFits ==
    \A count \in FormatCounts, sides \in FormatSides, modifier \in FormatModifiers :
        /\ dice_call.dice = to_string(count) \o <<"d">> \o to_string(sides)
                               \o <<"+">> \o to_string(modifier)
        /\ dice_call.result # NotRolled
        /\ sides <= (MaxI32 - 3) \div count
        /\ modifier <= 3
        => RolledExactly(dice_call.result, count, sides, modifier)

\* an integer literal: an optional minus sign, then one digit or more
IsInteger(s) ==
    LET digits == IF s # <<>> /\ Head(s) = "-" THEN Tail(s) ELSE s
    IN  digits # <<>> /\ \A i \in 1..Len(digits) : IsDigit(digits[i])

\* the expression has a '+' and what follows the first '+' is not one
\* integer: it is empty, not numeric, or holds a further '+' term
BadModifier(dice) ==
    \E p \in 1..Len(dice) :
        /\ dice[p] = "+"
        /\ \A j \in 1..(p - 1) : dice[j] # "+"
        /\ ~IsInteger(SubSeq(dice, p + 1, Len(dice)))

\* C16: an expression whose modifier field is empty or not numeric, or that
\* has more than one '+' term, fails with an error and produces no roll.
C16_ModifierValidated ==
    dice_call.result # NotRolled /\ BadModifier(dice_call.dice)
        => dice_call.result.kind = "Err"

\* the count, sides and modifier roll_dice reads from an expression it accepts
Accepted(dice) ==
    LET parts == split(dice, "+")
        dice_parts == split(parts[1], "d")
    IN  [count |-> parse_i32(dice_parts[1]).value,
         sides |-> parse_i32(dice_parts[2]).value,
         modifier |-> IF Len(parts) > 1 THEN unwrap_or(parse_i32(parts[2]), 0) ELSE 0]

\* C40: for every expression roll_dice accepts, every roll lies in
\* [1, sides] and the total is the exact sum of the rolls and the modifier:
\* no addition leaves the i32 range.
C40_TotalIsExactSum ==
    dice_call.result.kind \in {"Ok", "Panic"} =>
        LET term == Accepted(dice_call.dice)
        IN  RolledExactly(dice_call.result, term.count, term.sides, term.modifier)

\* the part of C40 that holds: the rolls themselves are in range
C40_RollsInRange ==
    dice_call.result.kind = "Ok" =>
        LET term == Accepted(dice_call.dice)
        IN  /\ Len(dice_call.result.rolls) = term.count
            /\ \A i \in 1..term.count : dice_call.result.rolls[i] \in 1..term.sides

\* C31: NextTurn changes only current_turn and round: the combat_active flag,
\* the initiative_order (entries and their order) and the conditions of the
\* game state a NextTurn persists are those of the game state it read.
C31_NextTurnKeepsTheRest ==
    [][\A c \in Conns :
         (NextTurnWrites(c) /\ out'[c].reply # Error("Failed to update game state")) =>
            LET read == from_value(loc[c].session_game_state)
                persisted == db_game_state'[msg[c].session_id]
            IN  /\ parses_as_game_state(persisted)
                /\ DOMAIN persisted = GameStateFields
                /\ persisted.combat_active = read.combat_active
                /\ persisted.initiative_order = read.initiative_order
                /\ persisted.conditions = read.conditions]_vars

\* a NextTurn has advanced a combat that carries a condition
C31_Witness ==
    \E c \in Conns :
        /\ pc[c] = "send" /\ msg[c].type = "NextTurn"
        /\ out[c].reply.type = "TurnChanged" /\ out[c].reply.current_turn = "B"
        /\ db_game_state[msg[c].session_id] =
              [CombatJson EXCEPT !.current_turn = "B"]

\* the step in which a session endpoint answers the call named op
SessionCall(op) == http.pc = "idle" /\ http'.pc = "done" /\ http'.op = op

\* C35: the status of a session goes planned -> active -> ended at the DM's
\* calls: start_session by the DM of the campaign answers OK and sets the
\* status 'active' (a planned session can always be started), end_session by
\* the DM then answers OK and sets 'ended', and either call by anybody else
\* answers FORBIDDEN and leaves the status as it was.
C35_SessionLifecycle ==
    /\ [][\A op \in {"start_session", "end_session"} :
            SessionCall(op) =>
               LET session_id == http'.session_id
                   is_dm == is_campaign_dm(session_id, http'.user)
                   status == IF op = "start_session" THEN "active" ELSE "ended"
               IN  /\ ~is_dm =>
                        /\ http'.response.status = 403
                        /\ session_rows' = session_rows
                   /\ (is_dm /\ http'.db = "ok") => http'.response.status = 200
                   /\ http'.response.status = 200 =>
                        /\ session_rows'[session_id].status = status
                        /\ http'.response.body.status = status
                        /\ \A other \in SessionIds \ {session_id} :
                              session_rows'[other] = session_rows[other]
                   /\ http'.response.status # 200 => session_rows' = session_rows]_vars
    /\ [](http.pc = "idle" =>
            \A session_id \in SessionIds :
               LET dm == CampaignDm[SessionCampaign[session_id]]
               IN  /\ session_rows[session_id].status = "planned" =>
                        ENABLED (/\ StartSession(dm, session_id)
                                 /\ http'.response.status = 200
                                 /\ session_rows'[session_id].status = "active")
                   /\ session_rows[session_id].status = "active" =>
                        ENABLED (/\ EndSession(dm, session_id)
                                 /\ http'.response.status = 200
                                 /\ session_rows'[session_id].status = "ended"))

\* the DM has ended a session that was started before: end_session answered
\* OK and the row is 'ended' with both timestamps set
C35_Witness ==
    /\ http.pc = "done" /\ http.op = "end_session"
    /\ http.response.status = 200
    /\ session_rows[http.session_id] =
          [status |-> "ended", started_at |-> Some("now"), ended_at |-> Some("now")]

\* the members of a session the registry holds: none when it has no entry
RegisteredIn(session_id) ==
    IF session_id \in DOMAIN sessions THEN DOMAIN sessions[session_id].connections
    ELSE {}

\* the same after the step
RegisteredAfter(session_id) ==
    IF session_id \in DOMAIN sessions' THEN DOMAIN sessions'[session_id].connections
    ELSE {}

\* connection c runs the registry function op
Runs(c, op) == task[c] # NoTask /\ task[c].op = op

\* C36: a join and a leave on the same session are atomic with respect to
\* each other: when a join_session of B on S returns, the map has an entry
\* for S with B in it, whatever leave is under way, and a leave_session of A
\* takes out nobody but A; so when the last member A leaves S while B joins,
\* S has an entry containing B once both have returned.
C36_JoinAndLeaveAtomic ==
    [][\A c \in Conns :
         /\ (Runs(c, "join_session") /\ task[c].at = "connections" /\ task'[c] = NoTask) =>
               c \in RegisteredAfter(task[c].session_id)
         /\ (Runs(c, "leave_session") /\ task'[c] = NoTask) =>
               \A session_id \in SessionIds :
                  RegisteredAfter(session_id) =
                     IF session_id = task[c].session_id
                     THEN RegisteredIn(session_id) \ {c}
                     ELSE RegisteredIn(session_id)]_vars

\* the last member of a session is about to leave it (its leave_session
\* waits for the map lock) while another connection is inside join_session
\* for the same session
C36_Witness ==
    \E a \in Conns, b \in Conns :
        /\ a # b
        /\ Runs(a, "leave_session") /\ task[a].at = "start"
        /\ Runs(b, "join_session") /\ task[b].at = "connections"
        /\ task[a].session_id = task[b].session_id
        /\ RegisteredIn(task[a].session_id) = {a}

\* the locks connection c holds
HoldsMap(c) == c \in locks.map_readers \/ locks.map_writer = c
HoldsConnections(c, session_id) ==
    \/ c \in locks.connections_readers[session_id]
    \/ locks.connections_writer[session_id] = c
WaitsForMap(c) == \E i \in 1..Len(locks.map_queue) : locks.map_queue[i] = c

\* where a registry function stands and what it holds there
LockOrder ==
    \A c \in Conns :
        /\ WaitsForMap(c) =>
              /\ task[c] # NoTask /\ task[c].at = "start"
              /\ ~HoldsMap(c)
              /\ \A session_id \in SessionIds : ~HoldsConnections(c, session_id)
        /\ \A session_id \in SessionIds :
              HoldsConnections(c, session_id) =>
                 /\ HoldsMap(c)
                 /\ task[c] # NoTask /\ task[c].at = "connections"
                 /\ task[c].session_id = session_id
        /\ HoldsMap(c) => task[c] # NoTask /\ task[c].at \in {"map", "connections"}
        /\ (task[c] # NoTask /\ task[c].at = "map") => HoldsMap(c)

\* C37: the registry functions cannot deadlock: a lock on a connection set
\* is taken only by a function that already holds the map lock, no function
\* waits for the map lock while it holds a lock on a connection set, and
\* every function that was started returns and has then released its locks.
C37_NoDeadlock ==
    /\ [](LockOrder)
    /\ [][\A c \in Conns, session_id \in SessionIds :
            (~HoldsConnections(c, session_id) /\ HoldsConnections(c, session_id)') =>
               HoldsMap(c)]_vars
    /\ \A c \in Conns :
          (task[c] # NoTask) ~>
             (/\ task[c] = NoTask /\ ~HoldsMap(c)
              /\ \A session_id \in SessionIds : ~HoldsConnections(c, session_id))

\* a leave_session holds the map lock and the lock of a connection set
\* while another function waits for the map lock
C37_Witness ==
    \E c \in Conns, w \in Conns :
        /\ Runs(c, "leave_session") /\ task[c].at = "connections"
        /\ locks.map_writer = c
        /\ locks.connections_writer[task[c].session_id] = c
        /\ WaitsForMap(w)

====
